---- MODULE Spec2Model ----
(***************************************************************************)
(* Model of roudenn: reconciliation of workouts found in track files and   *)
(* in the export database (src/src/main.rs, merge_by_start_minute and      *)
(* choose_better) and the two track-file scanners of src/src/gpx.rs        *)
(* (duration_from_gpx, parse_gpx_points).                                  *)
(*                                                                         *)
(* Conventions.  Option<T> is a sequence of length 0 (None) or 1 (Some).   *)
(* A DateTime<Utc> is its whole seconds since the Unix epoch and the      *)
(* nanoseconds of that second, a Duration whole seconds and nanoseconds;   *)
(* DateTime::timestamp and Duration::num_seconds give their whole          *)
(* seconds.  A source string                                               *)
(* is the pair <<prefix, rest>> of its first characters up to and          *)
(* including the colon and the remaining text, so that                     *)
(* source.starts_with("db:") is source[1] = "db:".                         *)
(***************************************************************************)
EXTENDS FiniteSets, Integers, Sequences, TLC

VARIABLES
    workouts,     \* main.rs: argument of merge_by_start_minute (Vec<Workout>)
    merged,       \* main.rs: value returned by merge_by_start_minute
    workouts2,    \* argument of a second call made on a derived input
    merged2,      \* value returned by the second call
    m_pc,         \* position of the merge harness
    x_pc,         \* gpx.rs: position of the scanner: "start" before fs::read, "loop",
                  \* "done" returned on Eof or an empty file, "stopped" returned early
    opened,       \* quick_xml Reader: the elements opened and not yet closed, innermost last
    expecting_time_text,  \* gpx.rs:105
    min_t,        \* gpx.rs:107
    max_t,        \* gpx.rs:108
    time_count,   \* gpx.rs:110
    d_result,     \* value returned by duration_from_gpx
    times_parsed, \* history: the instants duration_from_gpx has parsed so far
    st,           \* gpx.rs:172, the GpxState of parse_gpx_points
    out,          \* gpx.rs:173, the points pushed after the first out_base ones
    out_base,     \* number of points pushed before those listed in out
    p_result,     \* tag of the value returned by parse_gpx_points
    c_pc,         \* gpx.rs: position of collect_from_gpx: "idle", "walk", "returned"
    visited,      \* history: the directory entries WalkDir has yielded so far
    cnt,          \* gpx.rs:20-24, the counters seen, start_fail, empty, no_duration, with_duration
    c_out,        \* gpx.rs:18, the Workouts pushed so far
    c_result,     \* value returned by collect_from_gpx
    r_file,       \* the track file parse_gpx_points was called on, if any
    r_result,     \* value returned by that call
    export,       \* the export directory given to the run: files/ and database/Gadgetbridge
    cli,          \* main.rs:137, the options no_gpx, no_db, count and verbose
    run,          \* value returned by main in print mode, and the Workouts it printed
    f_pc,         \* position of the file-name harness: "idle", "written", "parsed"
    f_instant,    \* the instant (a whole second) written into the name
    f_name,       \* the file name, as the parts the pattern sees in it
    f_at,         \* index in f_name of the part written for f_instant
    f_result,     \* value returned by parse_start_from_filename(f_name)
    u_rows,       \* ingest.rs:253-285, the rows of the table workouts
    u_seq,        \* the last value drawn from the sequence behind workouts.id
    u_now,        \* the clock of the store, read by now()
    u_last,       \* the last call of upsert_workout: its summary and the id it returned
    k_items,      \* the elements a track file is made of, given to both parser modes
    k_points,     \* value returned by parse_gpx_points on that file
    k_duration,   \* value returned by duration_from_gpx on that file
    w_points,     \* ingest.rs:289-297, the committed rows of the table workout_points
    i_pc,         \* position of import_points_for_workout: "idle", "called", "begun",
                  \* "deleted", "inserting", "returned"
    i_call,       \* its arguments workout_id and points
    i_tx,         \* the rows of workout_points as its open transaction sees them
    i_k,          \* how many points its loop has inserted
    i_result,     \* "pending", "Ok" or "Err"
    i_before,     \* history: the committed rows when it was called
    i_prev,       \* history: the arguments and the outcome of the last call that returned Ok
    i_n,          \* how many times it was called
    databases,    \* the names of the databases of the PostgreSQL server
    g_pc,         \* position of ingest: "idle", "start", "connected", "ensured", "loop",
                  \* "upserted", "importing", "done", "failed"
    g_build,      \* which ingest the binary runs: that of ingest.rs or that of main.rs
    g_cli,        \* the options with_points and store_raw_details of Cmd::Ingest
    g_export,     \* the table BASE_ACTIVITY_SUMMARY of the export
    g_todo,       \* the summaries the loop has not processed yet
    g_id,         \* workout_id of the summary the loop is at
    g_schema,     \* which of the tables, the materialized view and its unique index exist
    g_hist,       \* history of the run: statements issued and the points stored at its start
    pg_url,       \* the database name of the URL given to the run
    clients       \* per client of the server: its position in connect_or_create_db and
                  \* what it has seen

mvars == <<workouts, merged, workouts2, merged2, m_pc>>

dvars == <<expecting_time_text, min_t, max_t, time_count, d_result, times_parsed>>

pvars == <<st, out, out_base, p_result>>

xvars == <<x_pc, opened>>

cvars == <<c_pc, visited, cnt, c_out, c_result, r_file, r_result>>

\* the variables of the components added after the merge and the scanners
rvars == <<export, cli, run>>

fvars == <<f_pc, f_instant, f_name, f_at, f_result>>

uvars == <<u_rows, u_seq, u_now, u_last>>

kvars == <<k_items, k_points, k_duration>>

ivars == <<w_points, i_pc, i_call, i_tx, i_k, i_result, i_before, i_prev, i_n>>

gvars == <<databases, g_pc, g_build, g_cli, g_export, g_todo, g_id, g_schema, g_hist,
          pg_url, clients>>

yvars == <<fvars, uvars, kvars, ivars, gvars>>

zvars == <<cvars, rvars, yvars>>

vars == <<workouts, merged, workouts2, merged2, m_pc, x_pc, opened,
          expecting_time_text, min_t, max_t, time_count, d_result, times_parsed,
          st, out, out_base, p_result,
          c_pc, visited, cnt, c_out, c_result, r_file, r_result,
          export, cli, run,
          f_pc, f_instant, f_name, f_at, f_result,
          u_rows, u_seq, u_now, u_last,
          k_items, k_points, k_duration,
          w_points, i_pc, i_call, i_tx, i_k, i_result, i_before, i_prev, i_n,
          databases, g_pc, g_build, g_cli, g_export, g_todo, g_id, g_schema, g_hist,
          pg_url, clients>>

(***************************************************************************)
(* Bounds of the model.                                                    *)
(***************************************************************************)
MaxLen == 3

MaxPairStart == 70

MaxDepth == 3

MaxPoints == 2

MaxTimes == 3

(***************************************************************************)
(* Program constants.                                                      *)
(***************************************************************************)
SecondsPerMinute == 60

MillisPerSecond == 1000

I32_MAX == 2147483647

None == <<>>

Some(v) == <<v>>

is_some(o) == Len(o) = 1

(***************************************************************************)
(* Instants and durations (chrono).  A DateTime<Utc> holds a date, the     *)
(* second of the day (0 .. 86399) and a fraction of the second in          *)
(* nanoseconds that runs to two seconds: a fraction of one second or more  *)
(* places the instant inside a leap second, which is written as second 60. *)
(* An instant is the record of its whole seconds since the epoch           *)
(* (DateTime::timestamp) and that fraction.  A duration (chrono::Duration, *)
(* TimeDelta) is the record of its whole seconds, rounded down, and the    *)
(* nanoseconds above them, less than one second.                           *)
(***************************************************************************)
NanosPerMilli == MillisPerSecond * MillisPerSecond

NanosPerSecond == MillisPerSecond * NanosPerMilli

SecondsPerDay == 24 * 3600

\* the instant nanos nanoseconds into the second secs of the epoch
InstantNanos(secs, nanos) == [ secs |-> secs, nanos |-> nanos ]

\* the instant millis milliseconds into the second secs of the epoch
InstantAt(secs, millis) == InstantNanos(secs, millis * NanosPerMilli)

AtSecond(n) == InstantNanos(n, 0)

\* DateTime::timestamp(): whole seconds since the epoch, rounded down; inside
\* a leap second it is the timestamp of the second before
timestamp(t) == t.secs

\* the fraction in nanoseconds, one second and more inside a leap second
frac_of(t) == t.nanos

\* DateTime::timestamp_millis()
timestamp_millis(t) == timestamp(t) * MillisPerSecond + (frac_of(t) \div NanosPerMilli)

\* days since 1970-01-01 and second of the day
days_of(t) == timestamp(t) \div SecondsPerDay

secs_of_day(t) == timestamp(t) % SecondsPerDay

\* the order of DateTime (derived Ord of the date, the second of the day
\* and the fraction): an instant inside a leap second comes after every
\* instant of the second before it and before the start of the second after
earlier(a, b) == a.secs < b.secs \/ (a.secs = b.secs /\ a.nanos < b.nanos)

not_later(a, b) == a = b \/ earlier(a, b)

\* the instant a number of seconds after an instant, the fraction kept
plus_seconds(t, n) == [ t EXCEPT !.secs = @ + n ]

\* a Duration of secs seconds and nanos nanoseconds, nanos of either sign
\* and less than two seconds in size
Duration(secs, nanos) ==
    [ secs |-> secs + (nanos \div NanosPerSecond), nanos |-> nanos % NanosPerSecond ]

\* Duration::seconds(n) and Duration::milliseconds(n)
Seconds(n) == Duration(n, 0)

Millis(n) == Duration(n \div MillisPerSecond, (n % MillisPerSecond) * NanosPerMilli)

Zero == Seconds(0)

\* the order of Duration
less_than(d, e) == d.secs < e.secs \/ (d.secs = e.secs /\ d.nanos < e.nanos)

\* a - b of two instants (DateTime::signed_duration_since): the difference
\* of the dates and the difference of the times of day.  The difference of
\* the times counts no leap second, except the one an operand lies in when
\* the other operand is at another second of the day on its far side
signed_duration_since(a, b) ==
    LET leap_between ==
            IF secs_of_day(a) > secs_of_day(b) /\ frac_of(b) >= NanosPerSecond THEN 1
            ELSE IF secs_of_day(a) < secs_of_day(b) /\ frac_of(a) >= NanosPerSecond
                 THEN 0 - 1
                 ELSE 0
    IN  Duration((days_of(a) - days_of(b)) * SecondsPerDay
                 + secs_of_day(a) - secs_of_day(b) + leap_between,
                 frac_of(a) - frac_of(b))

\* 2000-01-01T00:00:00Z, 10957 days after the epoch
PgEpoch == AtSecond(10957 * SecondsPerDay)

\* a DateTime<Utc> as a timestamptz parameter of a statement: the time since
\* 2000-01-01T00:00:00 in whole microseconds (num_microseconds drops the
\* rest toward zero), a scale on which no leap second exists; an instant
\* inside one is stored as the instant as far into the second after it.
\* The value stored is held as the instant it reads back as
to_sql(t) ==
    LET d == signed_duration_since(t, PgEpoch)
        micros == IF d.secs < 0 THEN (d.nanos + MillisPerSecond - 1) \div MillisPerSecond
                  ELSE d.nanos \div MillisPerSecond
        since == Duration(d.secs, micros * MillisPerSecond)
    IN  InstantNanos(timestamp(PgEpoch) + since.secs, since.nanos)

\* the date of the proleptic Gregorian calendar a number of days after
\* 1970-01-01, as << year, month, day >>
civil_from_days(days) ==
    LET z == days + 719468
        era == z \div 146097
        doe == z - era * 146097
        yoe == (doe - doe \div 1460 + doe \div 36524 - doe \div 146096) \div 365
        doy == doe - (365 * yoe + yoe \div 4 - yoe \div 100)
        mp == (5 * doy + 2) \div 153
        m == IF mp < 10 THEN mp + 3 ELSE mp - 9
    IN  << yoe + era * 400 + (IF m <= 2 THEN 1 ELSE 0), m, doy - (153 * mp + 2) \div 5 + 1 >>

\* start.to_rfc3339() of a DateTime<Utc>: the date, the time of day (second
\* 60 inside a leap second), the fraction of the second when there is one,
\* as << digits written, their value >> with 3, 6 or 9 digits, the fewest
\* that hold it, and the offset
to_rfc3339(t) ==
    LET secs == secs_of_day(t)
        leap == IF frac_of(t) >= NanosPerSecond THEN 1 ELSE 0
        nanos == frac_of(t) % NanosPerSecond
    IN  [ date |-> civil_from_days(days_of(t)),
          time |-> << secs \div 3600, (secs % 3600) \div 60, (secs % 60) + leap >>,
          fraction |-> IF nanos = 0 THEN None
                       ELSE IF nanos % NanosPerMilli = 0 THEN Some(<< 3, nanos \div NanosPerMilli >>)
                       ELSE IF nanos % MillisPerSecond = 0
                            THEN Some(<< 6, nanos \div MillisPerSecond >>)
                            ELSE Some(<< 9, nanos >>),
          offset |-> "+00:00" ]

(***************************************************************************)
(* Input domains.  Starts lie on both sides of the epoch and of minute     *)
(* boundaries.                                                             *)
(***************************************************************************)
StartTimes == { AtSecond(0 - 60), AtSecond(0 - 30), AtSecond(30), AtSecond(60) }

Durations == { None, Some(Seconds(45)) }

Sources == { <<"gpx:", "a">>, <<"gpx:", "b">>, <<"db:", "BASE_ACTIVITY_SUMMARY kind=1">> }

Workout == [ start : StartTimes, duration : Durations, source : Sources ]

RECURSIVE SeqsUpTo(_, _)
SeqsUpTo(S, n) ==
    IF n = 0 THEN { <<>> }
    ELSE LET shorter == SeqsUpTo(S, n - 1)
         IN  shorter \cup { Append(s, x) : s \in { t \in shorter : Len(t) = n - 1 }, x \in S }

(***************************************************************************)
(* i64 division of Rust: the quotient is truncated toward zero.            *)
(***************************************************************************)
i64_div(a, b) ==
    IF a >= 0 THEN a \div b ELSE 0 - ((0 - a) \div b)

bucket_key(w) == i64_div(timestamp(w.start), SecondsPerMinute)

starts_with_db(source) == source[1] = "db:"

\* faulty variants of choose_better: the duration rule dropped, the source rule
\* dropped, the source rule reversed
choose_better_ignoring_duration(a, b) ==
    starts_with_db(b.source) /\ ~starts_with_db(a.source)

choose_better_duration_only(a, b) ==
    ~is_some(a.duration) /\ is_some(b.duration)

choose_better_preferring_file(a, b) ==
    IF ~is_some(a.duration) /\ is_some(b.duration) THEN TRUE
    ELSE IF is_some(a.duration) /\ ~is_some(b.duration) THEN FALSE
    ELSE starts_with_db(a.source) /\ ~starts_with_db(b.source)

choose_better(a, b) ==
    IF ~is_some(a.duration) /\ is_some(b.duration) THEN TRUE
    ELSE IF is_some(a.duration) /\ ~is_some(b.duration) THEN FALSE
    ELSE starts_with_db(b.source) /\ ~starts_with_db(a.source)

(***************************************************************************)
(* Vec::sort_by(|a, b| b.start.cmp(&a.start)): a stable sort, descending   *)
(* by start.  Insertion after every element that does not compare greater  *)
(* keeps equal elements in their input order.                              *)
(***************************************************************************)
RECURSIVE insert_desc(_, _)
insert_desc(sorted, w) ==
    IF sorted = <<>> THEN <<w>>
    ELSE IF not_later(w.start, Head(sorted).start)
         THEN <<Head(sorted)>> \o insert_desc(Tail(sorted), w)
         ELSE <<w>> \o sorted

\* faulty variant of sort_by_start_desc: the comparison written a.start.cmp(&b.start)
RECURSIVE insert_asc(_, _)
insert_asc(sorted, w) ==
    IF sorted = <<>> THEN <<w>>
    ELSE IF not_later(Head(sorted).start, w.start)
         THEN <<Head(sorted)>> \o insert_asc(Tail(sorted), w)
         ELSE <<w>> \o sorted

RECURSIVE sort_by_start_asc(_)
sort_by_start_asc(ws) ==
    IF ws = <<>> THEN <<>>
    ELSE insert_asc(sort_by_start_asc(SubSeq(ws, 1, Len(ws) - 1)), ws[Len(ws)])

RECURSIVE sort_by_start_desc(_)
sort_by_start_desc(ws) ==
    IF ws = <<>> THEN <<>>
    ELSE insert_desc(sort_by_start_desc(SubSeq(ws, 1, Len(ws) - 1)), ws[Len(ws)])

(***************************************************************************)
(* HashMap::insert on a map represented as a function from its keys.       *)
(***************************************************************************)
map_insert(m, k, v) ==
    [ x \in (DOMAIN m) \cup {k} |-> IF x = k THEN v ELSE m[x] ]

EmptyMap == [ x \in {} |-> <<>> ]

(***************************************************************************)
(* The loop of merge_by_start_minute over the sorted vector.               *)
(***************************************************************************)
RECURSIVE fill_by_key(_, _)
fill_by_key(sorted, by_key) ==
    IF sorted = <<>> THEN by_key
    ELSE LET w   == Head(sorted)
             key == bucket_key(w)
         IN  IF key \notin DOMAIN by_key
             THEN fill_by_key(Tail(sorted), map_insert(by_key, key, w))
             ELSE IF choose_better(by_key[key], w)
                  THEN fill_by_key(Tail(sorted), map_insert(by_key, key, w))
                  ELSE fill_by_key(Tail(sorted), by_key)

\* faulty variant of build_by_key: the loop runs over the vector as given, unsorted
build_by_key_unsorted(ws) == fill_by_key(ws, EmptyMap)

build_by_key(ws) == fill_by_key(sort_by_start_desc(ws), EmptyMap)

(***************************************************************************)
(* HashMap::into_values yields the values in an unspecified order: every   *)
(* enumeration of the keys is a possible iteration order.                  *)
(***************************************************************************)
iteration_orders(by_key) ==
    LET n == Cardinality(DOMAIN by_key)
    IN  { o \in [1..n -> DOMAIN by_key] : \A i, j \in 1..n : o[i] = o[j] => i = j }

into_values(by_key, order) == [ i \in 1..Len(order) |-> by_key[order[i]] ]

\* faulty variant of merge_by_start_minute: the sorted vector returned, not the map's values
merge_without_dedup(ws, order) == sort_by_start_desc(ws)

merge_by_start_minute(ws, order) ==
    sort_by_start_desc(into_values(build_by_key(ws), order))

(***************************************************************************)
(* Date-time texts.  A text is the sequence of its characters, each a      *)
(* string of one character; "<U+0663>" stands for ARABIC-INDIC DIGIT       *)
(* THREE, a decimal digit outside ASCII, "<U+2212>" for MINUS SIGN and     *)
(* "<FF>" for a byte no UTF-8 text holds.                                  *)
(***************************************************************************)
AsciiDigits == << "0", "1", "2", "3", "4", "5", "6", "7", "8", "9" >>

digit_value ==
    [ c \in { AsciiDigits[i] : i \in 1..10 } |-> CHOOSE n \in 0..9 : AsciiDigits[n + 1] = c ]

is_ascii_digit(c) == c \in DOMAIN digit_value

RECURSIVE digits_value(_)
digits_value(ds) ==
    IF ds = <<>> THEN 0
    ELSE digits_value(SubSeq(ds, 1, Len(ds) - 1)) * 10 + digit_value[ds[Len(ds)]]

\* the number the n characters of s from position i on write, when they are
\* there and are ASCII digits
number(s, i, n) ==
    IF i + n - 1 > Len(s) THEN None
    ELSE IF \E k \in i..(i + n - 1) : ~is_ascii_digit(s[k]) THEN None
    ELSE Some(digits_value(SubSeq(s, i, i + n - 1)))

\* how many ASCII digits s holds in a row from position i on
RECURSIVE digits_from(_, _)
digits_from(s, i) ==
    IF i > Len(s) THEN 0
    ELSE IF ~is_ascii_digit(s[i]) THEN 0
    ELSE 1 + digits_from(s, i + 1)

RECURSIVE pow10(_)
pow10(k) == IF k = 0 THEN 1 ELSE 10 * pow10(k - 1)

\* the nanoseconds of a fraction of n digits that begins at position i of
\* s: its first nine digits count, the digits after the ninth are dropped
nanos_at(s, i, n) ==
    LET kept == IF n < 9 THEN n ELSE 9
    IN  digits_value(SubSeq(s, i, i + kept - 1)) * pow10(9 - kept)

is_leap_year(y) == y % 4 = 0 /\ (y % 100 # 0 \/ y % 400 = 0)

days_in_month(y, m) ==
    IF m = 2 THEN (IF is_leap_year(y) THEN 29 ELSE 28)
    ELSE IF m \in { 4, 6, 9, 11 } THEN 30
    ELSE 31

\* the days from 1970-01-01 to a date of the proleptic Gregorian calendar
days_from_civil(y, m, d) ==
    LET yy == IF m <= 2 THEN y - 1 ELSE y
        era == yy \div 400
        yoe == yy - era * 400
        doy == ((153 * (IF m > 2 THEN m - 3 ELSE m + 9) + 2) \div 5) + d - 1
        doe == yoe * 365 + (yoe \div 4) - (yoe \div 100) + doy
    IN  era * 146097 + doe - 719468

\* a date, a time of day << hour, minute, second, nanoseconds >> and an
\* offset in seconds east of UTC as a DateTime<FixedOffset>: none when the
\* date does not exist, when hour, minute or second are out of range, or
\* when the offset is a day or more; second 60 is a leap second, whatever
\* the date and the minute.  The result is the local date and time, held
\* as an instant is, and the offset
to_datetime(date, time, offset) ==
    IF date[2] \notin 1..12 THEN None
    ELSE IF date[3] \notin 1..days_in_month(date[1], date[2]) THEN None
    ELSE IF time[1] > 23 \/ time[2] > 59 \/ time[3] > 60 THEN None
    ELSE IF offset <= 0 - SecondsPerDay \/ offset >= SecondsPerDay THEN None
    ELSE Some([ local |-> InstantNanos(days_from_civil(date[1], date[2], date[3])
                                          * SecondsPerDay
                                         + time[1] * 3600 + time[2] * 60
                                         + (IF time[3] = 60 THEN 59 ELSE time[3]),
                                       time[4] + (IF time[3] = 60 THEN NanosPerSecond ELSE 0)),
                offset |-> offset ])

\* DateTime::parse_from_rfc3339(s): dddd-dd-dd, one of T, t and a space,
\* dd:dd:dd, a fraction of a second (a point and digits) or none, and Z, z or
\* a sign and dd:dd, with nothing before or after; the digits are ASCII
\* digits and the minutes of the offset are at most 59
parse_from_rfc3339(s) ==
    LET has_fraction == s[20] = "."
        fraction_digits == IF has_fraction THEN digits_from(s, 21) ELSE 0
        zone_at == IF has_fraction THEN 21 + fraction_digits ELSE 20
        zulu == Len(s) = zone_at /\ s[zone_at] \in { "Z", "z" }
        numeric ==
            /\ Len(s) = zone_at + 5
            /\ s[zone_at] \in { "+", "-", "<U+2212>" }
            /\ number(s, zone_at + 1, 2) # None
            /\ s[zone_at + 3] = ":"
            /\ number(s, zone_at + 4, 2) # None
            /\ number(s, zone_at + 4, 2)[1] <= 59
        east == number(s, zone_at + 1, 2)[1] * 3600 + number(s, zone_at + 4, 2)[1] * 60
    IN  IF Len(s) < 20 THEN None
        ELSE IF \/ number(s, 1, 4) = None \/ s[5] # "-"
                \/ number(s, 6, 2) = None \/ s[8] # "-"
                \/ number(s, 9, 2) = None \/ s[11] \notin { "T", "t", " " }
                \/ number(s, 12, 2) = None \/ s[14] # ":"
                \/ number(s, 15, 2) = None \/ s[17] # ":"
                \/ number(s, 18, 2) = None
             THEN None
        ELSE IF has_fraction /\ fraction_digits = 0 THEN None
        ELSE IF ~zulu /\ ~numeric THEN None
        ELSE to_datetime(<< number(s, 1, 4)[1], number(s, 6, 2)[1], number(s, 9, 2)[1] >>,
                         << number(s, 12, 2)[1], number(s, 15, 2)[1], number(s, 18, 2)[1],
                            IF has_fraction THEN nanos_at(s, 21, fraction_digits) ELSE 0 >>,
                         IF zulu THEN 0 ELSE IF s[zone_at] = "+" THEN east ELSE 0 - east)

\* faulty variant of with_timezone_utc: the offset is dropped and the local
\* date and time are read as UTC
with_timezone_utc_naive(dt_fixed) == dt_fixed.local

\* dt_fixed.with_timezone(&Utc): the instant, the local date and time less
\* the offset; the fraction, and with it a leap second, is kept
with_timezone_utc(dt_fixed) == plus_seconds(dt_fixed.local, 0 - dt_fixed.offset)

(***************************************************************************)
(* Date-time texts as they are written: the local date and time of an      *)
(* instant seen at an offset [+-]hh:mm, second 60 inside a leap second.    *)
(***************************************************************************)
two_digits(n) == << AsciiDigits[(n \div 10) + 1], AsciiDigits[(n % 10) + 1] >>

four_digits(n) == two_digits(n \div 100) \o two_digits(n % 100)

Offset(sign, hh, mm) == [ sign |-> sign, hh |-> hh, mm |-> mm ]

\* seconds east of UTC of a written offset
offset_seconds(offset) ==
    IF offset.sign = "+" THEN offset.hh * 3600 + offset.mm * 60
    ELSE 0 - (offset.hh * 3600 + offset.mm * 60)

\* the date and the time of day of a local date-time, the fields of the time
\* set apart by sep
written_date_time(local, sep) ==
    LET date == civil_from_days(days_of(local))
        secs == secs_of_day(local)
        leap == IF frac_of(local) >= NanosPerSecond THEN 1 ELSE 0
    IN  four_digits(date[1]) \o << "-" >> \o two_digits(date[2]) \o << "-" >>
        \o two_digits(date[3]) \o << "T" >> \o two_digits(secs \div 3600) \o << sep >>
        \o two_digits((secs % 3600) \div 60) \o << sep >> \o two_digits((secs % 60) + leap)

\* n as three digits
three_digits(n) == << AsciiDigits[(n \div 100) + 1] >> \o two_digits(n % 100)

\* the nine digits of a number of nanoseconds
nine_digits(nanos) ==
    three_digits(nanos \div NanosPerMilli)
    \o three_digits((nanos \div MillisPerSecond) % MillisPerSecond)
    \o three_digits(nanos % MillisPerSecond)

\* digits without the zeros at their end: the first n of them, where the
\* n-th is the last that is no zero
RECURSIVE last_nonzero(_, _)
last_nonzero(ds, n) ==
    IF n = 0 THEN 0 ELSE IF ds[n] = "0" THEN last_nonzero(ds, n - 1) ELSE n

trimmed(ds) == SubSeq(ds, 1, last_nonzero(ds, Len(ds)))

\* the fraction of the second: nothing, or a point and the fewest digits
\* that hold it; and its long writing, a point and ten digits, the tenth
\* below a nanosecond
written_fraction(local) ==
    LET nanos == frac_of(local) % NanosPerSecond
    IN  IF nanos = 0 THEN <<>> ELSE << "." >> \o trimmed(nine_digits(nanos))

written_fraction_long(local) ==
    << "." >> \o nine_digits(frac_of(local) % NanosPerSecond) \o << "7" >>

written_offset(offset, sep) ==
    << offset.sign >> \o two_digits(offset.hh) \o << sep >> \o two_digits(offset.mm)

\* the text of a time element: the instant at an offset, and in UTC with Z
written_rfc3339(instant, offset) ==
    LET local == plus_seconds(instant, offset_seconds(offset))
    IN  written_date_time(local, ":") \o written_fraction(local) \o written_offset(offset, ":")

written_zulu(instant) ==
    written_date_time(instant, ":") \o written_fraction(instant) \o << "Z" >>

written_zulu_long(instant) ==
    written_date_time(instant, ":") \o written_fraction_long(instant) \o << "Z" >>

\* the characters of a text as one string
RECURSIVE text_of(_)
text_of(chars) == IF chars = <<>> THEN "" ELSE Head(chars) \o text_of(Tail(chars))

(***************************************************************************)
(* Track files (src/src/gpx.rs).  A file is read as the stream of events   *)
(* of quick_xml: Start(name, attributes), End(name), Text(content), the    *)
(* events the scanners ignore (Empty, Comment, CData, Decl, PI, DocType),  *)
(* Eof, or an error.  A text is one of: a text meant as an RFC 3339        *)
(* date-time, held as its characters; a number; anything else; bytes that  *)
(* do not decode.                                                          *)
(***************************************************************************)
ElementNames == { "trkpt", "time", "ele" }

TimestampText(chars) == [ kind |-> "timestamp", value |-> chars ]

\* the text 1970-01-01T00:00:00Z and n seconds
ZuluText(n) == TimestampText(written_zulu(AtSecond(n)))

\* the instant of ZuluText(10) at another offset: 1970-01-01T01:00:10+01:00
EastText == TimestampText(written_rfc3339(AtSecond(10), Offset("+", 1, 0)))

TimestampTexts == { ZuluText(10).value, ZuluText(20).value, EastText.value }

Texts ==
    { TimestampText(chars) : chars \in TimestampTexts }
    \cup [ kind : { "number" }, value : { <<5>> } ]
    \cup [ kind : { "junk", "undecodable" }, value : { <<>> } ]

\* 1970-01-01T00:00:10.0005Z, half a millisecond after ZuluText(10), and
\* 1970-01-01T00:00:10.0000000007Z, which differs from it below a nanosecond
SubMilliText == TimestampText(written_zulu(InstantNanos(10, NanosPerMilli \div 2)))

TenDigitsText == TimestampText(written_zulu_long(AtSecond(10)))

\* the texts duration_from_gpx is given: those of Texts, texts with a
\* fraction of a second, texts inside a leap second (00:00:60Z, and
\* 23:59:60.500Z of the last second of a day) and at the start of the second
\* after it, and texts in the layout of a date-time that is none:
\* 1970-13-01T00:00:00Z, and 1970-01-01T00:00:30 without an offset
DurationTexts ==
    Texts
    \cup { TimestampText(written_zulu(t)) :
             t \in { InstantAt(19, 500), InstantAt(59, MillisPerSecond), AtSecond(60),
                     InstantAt(SecondsPerDay - 1, MillisPerSecond + 500),
                     AtSecond(SecondsPerDay) } }
    \cup { SubMilliText, TenDigitsText }
    \cup { TimestampText([ written_zulu(AtSecond(0)) EXCEPT ![6] = "1", ![7] = "3" ]),
           TimestampText(written_date_time(AtSecond(30), ":")) }

\* e.decode()
decode_ok(text) == text.kind # "undecodable"

\* parse_from_rfc3339 of the characters of a text.  The texts of
\* TimestampTexts are looked up in a table of their results; every other
\* text is parsed where it is read, its characters taken once
ParsedOnce == [ value \in TimestampTexts |-> parse_from_rfc3339(value) ]

parsed(value) ==
    IF value \in TimestampTexts THEN ParsedOnce[value]
    ELSE [ chars \in Seq(STRING) |-> parse_from_rfc3339(chars) ][value]

\* DateTime::parse_from_rfc3339(s) is Ok
rfc3339_ok(text) == text.kind = "timestamp" /\ parsed(text.value) # None

\* let dt = dt_fixed.with_timezone(&Utc)
utc_of(text) == with_timezone_utc(parsed(text.value)[1])

\* s.parse::<f64>()
f64_ok(text) == text.kind = "number"

f64_of(text) == text.value[1]

(***************************************************************************)
(* Attributes of a point element: name and value, the value a number       *)
(* ("1"), a text that is no number ("x") or a text that does not unescape  *)
(* ("&").  The reader is built with_checks(false) and hands on a repeated  *)
(* name as it is written; the last lat and the last lon that unescape are  *)
(* the ones kept.                                                          *)
(***************************************************************************)
AttrValues == { "1", "x", "&" }

Attrs == [ key : { "lat", "lon" }, value : AttrValues ]

AttrLists ==
    { <<>> }
    \cup { <<a>> : a \in Attrs }
    \cup { p \in Attrs \X Attrs : p[1].key = "lat" /\ p[2].key = "lon" }
    \cup { << [ key |-> "lat", value |-> "1" ], [ key |-> "lat", value |-> "x" ],
               [ key |-> "lon", value |-> "1" ] >> }

\* a.unescape_value()
unescape_ok(value) == value # "&"

\* v.parse::<f64>().ok()
attr_f64(value) == IF value = "1" THEN Some(1) ELSE None

RECURSIVE scan_attrs(_, _, _)
scan_attrs(attrs, lat, lon) ==
    IF attrs = <<>> THEN <<lat, lon>>
    ELSE LET a == Head(attrs)
         IN  IF a.key = "lat" /\ unescape_ok(a.value)
             THEN scan_attrs(Tail(attrs), attr_f64(a.value), lon)
             ELSE IF a.key = "lon" /\ unescape_ok(a.value)
                  THEN scan_attrs(Tail(attrs), lat, attr_f64(a.value))
                  ELSE scan_attrs(Tail(attrs), lat, lon)

parse_trkpt_lat_lon(attrs) == scan_attrs(attrs, None, None)

(***************************************************************************)
(* Duration mode: the arms of the loop of duration_from_gpx.               *)
(***************************************************************************)
option_min(cur, dt) == IF is_some(cur) THEN (IF earlier(dt, cur[1]) THEN Some(dt) ELSE cur) ELSE Some(dt)

option_max(cur, dt) == IF is_some(cur) THEN (IF earlier(cur[1], dt) THEN Some(dt) ELSE cur) ELSE Some(dt)

\* faulty variant of duration_of: the guard written b >= a
duration_of_not_strict(a, b) ==
    IF is_some(a) /\ is_some(b) /\ not_later(a[1], b[1])
    THEN Some(signed_duration_since(b[1], a[1]))
    ELSE None

\* match (min_t, max_t) { (Some(a), Some(b)) if b > a => Some(b - a), _ => None }
duration_of(a, b) ==
    IF is_some(a) /\ is_some(b) /\ earlier(a[1], b[1])
    THEN Some(signed_duration_since(b[1], a[1]))
    ELSE None

Pending == [ tag |-> "pending", value |-> None ]

Ok(v) == [ tag |-> "Ok", value |-> v ]

Err == [ tag |-> "Err", value |-> None ]

(***************************************************************************)
(* Point mode: GpxState and its three handlers.                            *)
(***************************************************************************)
GpxStateDefault ==
    [ in_trkpt |-> FALSE, in_time |-> FALSE, in_ele |-> FALSE,
      cur_lat |-> None, cur_lon |-> None, cur_time |-> None, cur_ele |-> None,
      idx |-> 0 ]

\* faulty variant of handle_gpx_start: the scratch time and elevation are
\* not cleared at the start of a point element
handle_gpx_start_keeping_scratch(s, name, attrs) ==
    IF name = "trkpt"
    THEN [ s EXCEPT !.in_trkpt = TRUE, !.in_time = FALSE, !.in_ele = FALSE,
                    !.cur_lat = parse_trkpt_lat_lon(attrs)[1],
                    !.cur_lon = parse_trkpt_lat_lon(attrs)[2] ]
    ELSE IF name = "time" /\ s.in_trkpt THEN [ s EXCEPT !.in_time = TRUE ]
    ELSE IF name = "ele" /\ s.in_trkpt THEN [ s EXCEPT !.in_ele = TRUE ]
    ELSE s

handle_gpx_start(s, name, attrs) ==
    IF name = "trkpt"
    THEN LET lat_lon == parse_trkpt_lat_lon(attrs)
         IN  [ s EXCEPT !.in_trkpt = TRUE, !.in_time = FALSE, !.in_ele = FALSE,
                        !.cur_lat = lat_lon[1],
                        !.cur_lon = lat_lon[2],
                        !.cur_time = None, !.cur_ele = None ]
    ELSE IF name = "time" /\ s.in_trkpt THEN [ s EXCEPT !.in_time = TRUE ]
    ELSE IF name = "ele" /\ s.in_trkpt THEN [ s EXCEPT !.in_ele = TRUE ]
    ELSE s

\* i32::saturating_add(1)
saturating_add_1(i) == IF i = I32_MAX THEN I32_MAX ELSE i + 1

GpxPoint(s) ==
    [ idx |-> s.idx, t |-> s.cur_time[1], lat |-> s.cur_lat[1], lon |-> s.cur_lon[1],
      ele |-> s.cur_ele ]

\* faulty variant of handle_gpx_end: a point is pushed only when an elevation was captured too
handle_gpx_end_needing_ele(s, name, o) ==
    IF name = "time" THEN [ st |-> [ s EXCEPT !.in_time = FALSE ], out |-> o ]
    ELSE IF name = "ele" THEN [ st |-> [ s EXCEPT !.in_ele = FALSE ], out |-> o ]
    ELSE IF name = "trkpt"
    THEN IF is_some(s.cur_lat) /\ is_some(s.cur_lon) /\ is_some(s.cur_time)
            /\ is_some(s.cur_ele)
         THEN [ st  |-> [ s EXCEPT !.in_trkpt = FALSE, !.idx = saturating_add_1(s.idx) ],
                out |-> Append(o, GpxPoint(s)) ]
         ELSE [ st |-> [ s EXCEPT !.in_trkpt = FALSE ], out |-> o ]
    ELSE [ st |-> s, out |-> o ]

\* the state and the vector after handle_gpx_end(&mut st, e, &mut out)
handle_gpx_end(s, name, o) ==
    IF name = "time" THEN [ st |-> [ s EXCEPT !.in_time = FALSE ], out |-> o ]
    ELSE IF name = "ele" THEN [ st |-> [ s EXCEPT !.in_ele = FALSE ], out |-> o ]
    ELSE IF name = "trkpt"
    THEN IF is_some(s.cur_lat) /\ is_some(s.cur_lon) /\ is_some(s.cur_time)
         THEN [ st  |-> [ s EXCEPT !.in_trkpt = FALSE, !.idx = saturating_add_1(s.idx) ],
                out |-> Append(o, GpxPoint(s)) ]
         ELSE [ st |-> [ s EXCEPT !.in_trkpt = FALSE ], out |-> o ]
    ELSE [ st |-> s, out |-> o ]

handle_gpx_text(s, text) ==
    IF s.in_time /\ decode_ok(text) /\ rfc3339_ok(text)
    THEN [ s EXCEPT !.cur_time = Some(utc_of(text)) ]
    ELSE IF s.in_ele /\ decode_ok(text) /\ f64_ok(text)
         THEN [ s EXCEPT !.cur_ele = Some(f64_of(text)) ]
         ELSE s

(***************************************************************************)
(* The reader's stack of open elements.  Each entry carries the history of *)
(* its element: whether its lat and lon attributes both hold numbers,      *)
(* whether the scanner captured a date-time inside it, whether another     *)
(* point element was opened inside it.                                     *)
(***************************************************************************)
has_number(attrs, key) ==
    is_some(parse_trkpt_lat_lon(attrs)[IF key = "lat" THEN 1 ELSE 2])

Opened(name, attrs) ==
    [ name |-> name,
      coords_ok |-> name = "trkpt" /\ has_number(attrs, "lat") /\ has_number(attrs, "lon"),
      time_ok |-> FALSE,
      nested |-> FALSE ]

\* position of the innermost open point element, 0 when there is none
innermost_trkpt(stack) ==
    LET at == { i \in DOMAIN stack : stack[i].name = "trkpt" }
    IN  IF at = {} THEN 0 ELSE CHOOSE i \in at : \A j \in at : j <= i

push_opened(stack, name, attrs) ==
    LET k == innermost_trkpt(stack)
        marked == IF name = "trkpt" /\ k # 0
                  THEN [ stack EXCEPT ![k].nested = TRUE ]
                  ELSE stack
    IN  Append(marked, Opened(name, attrs))

note_time(stack) ==
    LET k == innermost_trkpt(stack)
    IN  IF k = 0 THEN stack ELSE [ stack EXCEPT ![k].time_ok = TRUE ]

top(stack) == stack[Len(stack)]

pop(stack) == SubSeq(stack, 1, Len(stack) - 1)

(***************************************************************************)
(* No track file is being read.                                            *)
(***************************************************************************)
DurationIdle ==
    /\ expecting_time_text = FALSE
    /\ min_t = None
    /\ max_t = None
    /\ time_count = 0
    /\ d_result = Pending
    /\ times_parsed = {}

PointsIdle ==
    /\ st = GpxStateDefault
    /\ out = <<>>
    /\ out_base = 0
    /\ p_result = "pending"

GpxIdle ==
    /\ x_pc = "idle"
    /\ opened = <<>>
    /\ DurationIdle
    /\ PointsIdle

MergeIdle ==
    /\ workouts = <<>>
    /\ merged = <<>>
    /\ workouts2 = <<>>
    /\ merged2 = <<>>
    /\ m_pc = "idle"

CntZero ==
    [ seen |-> 0, start_fail |-> 0, empty |-> 0, no_duration |-> 0, with_duration |-> 0 ]

CollectIdle ==
    /\ c_pc = "idle"
    /\ visited = <<>>
    /\ cnt = CntZero
    /\ c_out = <<>>
    /\ c_result = Pending
    /\ r_file = None
    /\ r_result = Pending

NoFiles == [ has_dir |-> FALSE, entries |-> <<>> ]

NoDatabase == [ exists |-> FALSE, is_sqlite |-> FALSE, tables |-> <<>> ]

NotRun == [ tag |-> "pending", error |-> "", printed |-> <<>>, lines |-> <<>> ]

PrintIdle ==
    /\ export = [ files |-> NoFiles, db |-> NoDatabase ]
    /\ cli = [ no_gpx |-> FALSE, no_db |-> FALSE, count |-> 0, verbose |-> FALSE ]
    /\ run = NotRun

FilenameIdle ==
    /\ f_pc = "idle"
    /\ f_instant = AtSecond(0)
    /\ f_name = <<>>
    /\ f_at = 0
    /\ f_result = None

UpsertIdle ==
    /\ u_rows = {}
    /\ u_seq = 0
    /\ u_now = 0
    /\ u_last = None

TrackIdle ==
    /\ k_items = <<>>
    /\ k_points = Pending
    /\ k_duration = Pending

NoCall == [ workout_id |-> 0, points |-> <<>> ]

ImportIdle ==
    /\ w_points = {}
    /\ i_pc = "idle"
    /\ i_call = NoCall
    /\ i_tx = None
    /\ i_k = 0
    /\ i_result = "pending"
    /\ i_before = {}
    /\ i_prev = None
    /\ i_n = 0

NoExport ==
    [ name |-> "BASE_ACTIVITY_SUMMARY", columns |-> {}, rows |-> <<>>, index |-> <<>> ]

NoSchema == [ tables |-> FALSE, matview |-> FALSE, index |-> FALSE ]

NoHistory ==
    [ ensured |-> FALSE, upserts |-> 0, parsed |-> 0, raw_read |-> 0, refreshes |-> 0,
      before |-> {} ]

MaxClients == 2

Clients == 1 .. MaxClients

DbName == << "f", "i", "t" >>

NotStarted ==
    [ pc |-> "idle", first |-> "none", found |-> "unknown", creates |-> 0, code |-> "none",
      unrelated |-> FALSE, result |-> "pending" ]

IngestIdle ==
    /\ pg_url = DbName
    /\ clients = [ c \in Clients |-> NotStarted ]
    /\ databases = {}
    /\ g_pc = "idle"
    /\ g_build = "ingest.rs"
    /\ g_cli = [ with_points |-> FALSE, store_raw_details |-> FALSE ]
    /\ g_export = NoExport
    /\ g_todo = <<>>
    /\ g_id = 0
    /\ g_schema = NoSchema
    /\ g_hist = NoHistory

YIdle == FilenameIdle /\ UpsertIdle /\ TrackIdle /\ ImportIdle /\ IngestIdle

\* the components added after the merge and the scanners are not running
ZIdle ==
    /\ CollectIdle
    /\ PrintIdle
    /\ YIdle

(***************************************************************************)
(* The merge harness: one call on an input list, then a second call on a   *)
(* list derived from it: the list concatenated with itself, the output of  *)
(* the first call, or a permutation of the list.                           *)
(***************************************************************************)
index_perms(n) ==
    { p \in [1..n -> 1..n] : \A i, j \in 1..n : p[i] = p[j] => i = j }

permuted(ws, p) == [ i \in 1..Len(ws) |-> ws[p[i]] ]

MergeInit ==
    /\ workouts \in SeqsUpTo(Workout, MaxLen)
    /\ merged = <<>>
    /\ workouts2 = <<>>
    /\ merged2 = <<>>
    /\ m_pc = "start"
    /\ GpxIdle
    /\ ZIdle

Merge ==
    /\ m_pc = "start"
    /\ \E order \in iteration_orders(build_by_key(workouts)) :
         merged' = merge_by_start_minute(workouts, order)
    /\ m_pc' = "merged"
    /\ UNCHANGED <<workouts, workouts2, merged2>>
    /\ UNCHANGED <<xvars, dvars, pvars, zvars>>

MergeDuplicated ==
    /\ m_pc = "merged"
    /\ workouts2' = workouts \o workouts
    /\ \E order \in iteration_orders(build_by_key(workouts \o workouts)) :
         merged2' = merge_by_start_minute(workouts \o workouts, order)
    /\ m_pc' = "duplicated"
    /\ UNCHANGED <<workouts, merged>>
    /\ UNCHANGED <<xvars, dvars, pvars, zvars>>

MergeAgain ==
    /\ m_pc = "merged"
    /\ workouts2' = merged
    /\ \E order \in iteration_orders(build_by_key(merged)) :
         merged2' = merge_by_start_minute(merged, order)
    /\ m_pc' = "remerged"
    /\ UNCHANGED <<workouts, merged>>
    /\ UNCHANGED <<xvars, dvars, pvars, zvars>>

MergePermuted ==
    /\ m_pc = "merged"
    /\ \E p \in index_perms(Len(workouts)) :
         /\ workouts2' = permuted(workouts, p)
         /\ \E order \in iteration_orders(build_by_key(permuted(workouts, p))) :
              merged2' = merge_by_start_minute(permuted(workouts, p), order)
    /\ m_pc' = "permuted"
    /\ UNCHANGED <<workouts, merged>>
    /\ UNCHANGED <<xvars, dvars, pvars, zvars>>

MergeNext == Merge \/ MergeDuplicated \/ MergeAgain

SpecMerge == MergeInit /\ [][MergeNext]_vars

(***************************************************************************)
(* Permuted inputs.  Two buckets; in the first, two different starts, and  *)
(* records that differ only in their source tag.                           *)
(***************************************************************************)
PermWorkout ==
    [ start : { AtSecond(0), AtSecond(30) }, duration : Durations, source : Sources ]
    \cup [ start : { AtSecond(60) }, duration : { Some(Seconds(45)) },
           source : { <<"gpx:", "a">> } ]
    \cup [ start : { AtSecond(60) }, duration : { None },
           source : { <<"db:", "BASE_ACTIVITY_SUMMARY kind=1">> } ]

PermuteInit ==
    /\ workouts \in SeqsUpTo(PermWorkout, MaxLen)
    /\ merged = <<>>
    /\ workouts2 = <<>>
    /\ merged2 = <<>>
    /\ m_pc = "start"
    /\ GpxIdle
    /\ ZIdle

PermuteNext == Merge \/ MergePermuted

SpecPermute == PermuteInit /\ [][PermuteNext]_vars

(***************************************************************************)
(* Two workouts with known durations whose starts are 10 seconds apart,    *)
(* one database-derived and one file-derived, in either input order and    *)
(* with either of them starting first.                                     *)
(***************************************************************************)
KnownDurations == { Some(Seconds(30)), Some(Seconds(45)) }

PairRecord(s, d, src) == [start |-> s, duration |-> d, source |-> src]

PairInputs ==
    { <<PairRecord(AtSecond(s), d1, srcs[1]), PairRecord(AtSecond(s + g), d2, srcs[2])>> :
        s \in (0 - MaxPairStart)..MaxPairStart,
        g \in { 10, 0 - 10 },
        d1 \in KnownDurations, d2 \in KnownDurations,
        srcs \in { << <<"db:", "BASE_ACTIVITY_SUMMARY kind=1">>, <<"gpx:", "a">> >>,
                   << <<"gpx:", "a">>, <<"db:", "BASE_ACTIVITY_SUMMARY kind=1">> >> } }

PairInit ==
    /\ workouts \in PairInputs
    /\ merged = <<>>
    /\ workouts2 = <<>>
    /\ merged2 = <<>>
    /\ m_pc = "start"
    /\ GpxIdle
    /\ ZIdle

SpecPair == PairInit /\ [][MergeNext]_vars

(***************************************************************************)
(* duration_from_gpx, one action per arm of its loop.                      *)
(***************************************************************************)
\* the locals of duration_from_gpx are dropped when it returns
DReturn ==
    /\ opened' = <<>>
    /\ expecting_time_text' = FALSE
    /\ min_t' = None
    /\ max_t' = None
    /\ time_count' = 0
    /\ UNCHANGED times_parsed

DurationInit ==
    /\ MergeIdle
    /\ ZIdle
    /\ x_pc = "start"
    /\ opened = <<>>
    /\ DurationIdle
    /\ PointsIdle

\* fs::read(path)? fails
DReadFails ==
    /\ x_pc = "start"
    /\ x_pc' = "stopped"
    /\ d_result' = Err
    /\ DReturn
    /\ UNCHANGED <<mvars, pvars, zvars>>

\* bytes.is_empty()
DReadEmpty ==
    /\ x_pc = "start"
    /\ x_pc' = "done"
    /\ d_result' = Ok(None)
    /\ DReturn
    /\ UNCHANGED <<mvars, pvars, zvars>>

DRead ==
    /\ x_pc = "start"
    /\ x_pc' = "loop"
    /\ UNCHANGED <<opened, dvars, mvars, pvars, zvars>>

DStart(name, attrs) ==
    /\ x_pc = "loop"
    /\ Len(opened) < MaxDepth
    /\ opened' = push_opened(opened, name, attrs)
    /\ expecting_time_text' = IF name = "time" THEN TRUE ELSE expecting_time_text
    /\ UNCHANGED <<x_pc, min_t, max_t, time_count, d_result, times_parsed>>
    /\ UNCHANGED <<mvars, pvars, zvars>>

DEnd ==
    /\ x_pc = "loop"
    /\ opened # <<>>
    /\ opened' = pop(opened)
    /\ expecting_time_text' = IF top(opened).name = "time" THEN FALSE ELSE expecting_time_text
    /\ UNCHANGED <<x_pc, min_t, max_t, time_count, d_result, times_parsed>>
    /\ UNCHANGED <<mvars, pvars, zvars>>

DText(text) ==
    /\ x_pc = "loop"
    /\ IF expecting_time_text /\ decode_ok(text) /\ rfc3339_ok(text)
       THEN /\ time_count < MaxTimes
            /\ time_count' = time_count + 1
            /\ min_t' = option_min(min_t, utc_of(text))
            /\ max_t' = option_max(max_t, utc_of(text))
            /\ times_parsed' = times_parsed \cup { utc_of(text) }
       ELSE UNCHANGED <<min_t, max_t, time_count, times_parsed>>
    /\ UNCHANGED <<x_pc, opened, expecting_time_text, d_result>>
    /\ UNCHANGED <<mvars, pvars, zvars>>

\* Empty, Comment, CData, Decl, PI, DocType: the arm _ => {}
DOther ==
    /\ x_pc = "loop"
    /\ UNCHANGED <<xvars, dvars, mvars, pvars, zvars>>

\* Err(e): ill-formed markup, an end tag that closes no open element
DError ==
    /\ x_pc = "loop"
    /\ x_pc' = "stopped"
    /\ d_result' = Ok(None)
    /\ DReturn
    /\ UNCHANGED <<mvars, pvars, zvars>>

DEof ==
    /\ x_pc = "loop"
    /\ x_pc' = "done"
    /\ d_result' = Ok(duration_of(min_t, max_t))
    /\ DReturn
    /\ UNCHANGED <<mvars, pvars, zvars>>

DurationNext ==
    \/ DReadFails
    \/ DReadEmpty
    \/ DRead
    \/ \E name \in ElementNames : \E attrs \in AttrLists :
         (name = "trkpt" \/ attrs = <<>>) /\ DStart(name, attrs)
    \/ DEnd
    \/ \E text \in DurationTexts : DText(text)
    \/ DOther
    \/ DError
    \/ DEof

SpecDuration == DurationInit /\ [][DurationNext]_vars

(***************************************************************************)
(* parse_gpx_points, one action per arm of its loop.  When it returns its  *)
(* locals are dropped: Ok carries out, Err carries no points.              *)
(***************************************************************************)
PointsInit ==
    /\ MergeIdle
    /\ ZIdle
    /\ x_pc = "start"
    /\ opened = <<>>
    /\ DurationIdle
    /\ PointsIdle

PReadFails ==
    /\ x_pc = "start"
    /\ x_pc' = "stopped"
    /\ p_result' = "Err"
    /\ opened' = <<>>
    /\ st' = GpxStateDefault
    /\ out' = <<>>
    /\ out_base' = 0
    /\ UNCHANGED <<mvars, dvars, zvars>>

PReadEmpty ==
    /\ x_pc = "start"
    /\ x_pc' = "done"
    /\ p_result' = "Ok"
    /\ opened' = <<>>
    /\ st' = GpxStateDefault
    /\ UNCHANGED <<out, out_base>>
    /\ UNCHANGED <<mvars, dvars, zvars>>

PRead ==
    /\ x_pc = "start"
    /\ x_pc' = "loop"
    /\ UNCHANGED <<opened, pvars, mvars, dvars, zvars>>

PStart(name, attrs) ==
    /\ x_pc = "loop"
    /\ Len(opened) < MaxDepth
    /\ opened' = push_opened(opened, name, attrs)
    /\ st' = handle_gpx_start(st, name, attrs)
    /\ UNCHANGED <<x_pc, out, out_base, p_result>>
    /\ UNCHANGED <<mvars, dvars, zvars>>

PEnd ==
    /\ x_pc = "loop"
    /\ opened # <<>>
    /\ LET after == handle_gpx_end(st, top(opened).name, out)
       IN  /\ Len(after.out) <= MaxPoints
           /\ opened' = pop(opened)
           /\ st' = after.st
           /\ out' = after.out
    /\ UNCHANGED <<x_pc, out_base, p_result>>
    /\ UNCHANGED <<mvars, dvars, zvars>>

PText(text) ==
    /\ x_pc = "loop"
    /\ st' = handle_gpx_text(st, text)
    /\ opened' = IF st.in_time /\ decode_ok(text) /\ rfc3339_ok(text)
                 THEN note_time(opened)
                 ELSE opened
    /\ UNCHANGED <<x_pc, out, out_base, p_result>>
    /\ UNCHANGED <<mvars, dvars, zvars>>

POther ==
    /\ x_pc = "loop"
    /\ UNCHANGED <<xvars, pvars, mvars, dvars, zvars>>

\* Err(e) => anyhow::bail!
PError ==
    /\ x_pc = "loop"
    /\ x_pc' = "stopped"
    /\ p_result' = "Err"
    /\ opened' = <<>>
    /\ st' = GpxStateDefault
    /\ out' = <<>>
    /\ out_base' = 0
    /\ UNCHANGED <<mvars, dvars, zvars>>

PEof ==
    /\ x_pc = "loop"
    /\ x_pc' = "done"
    /\ p_result' = "Ok"
    /\ opened' = <<>>
    /\ st' = GpxStateDefault
    /\ UNCHANGED <<out, out_base>>
    /\ UNCHANGED <<mvars, dvars, zvars>>

PointsNext ==
    \/ PReadFails
    \/ PReadEmpty
    \/ PRead
    \/ \E name \in ElementNames : \E attrs \in AttrLists :
         (name = "trkpt" \/ attrs = <<>>) /\ PStart(name, attrs)
    \/ PEnd
    \/ \E text \in Texts : PText(text)
    \/ POther
    \/ PError
    \/ PEof

SpecPoints == PointsInit /\ [][PointsNext]_vars

(***************************************************************************)
(* Long track files.  PReadPoints is the scanner's work on a run of n      *)
(* consecutive point elements, each with a lat and a lon that hold numbers *)
(* and a time element that holds a date-time, read while no point element  *)
(* is open: n points are pushed, numbered from 0 since none was pushed     *)
(* before, and the counter has advanced n times.  The run's points are     *)
(* counted in out_base and not listed in out.                              *)
(***************************************************************************)
RunLengths == { I32_MAX - 1, I32_MAX }

PReadPoints(n, text) ==
    /\ x_pc = "loop"
    /\ innermost_trkpt(opened) = 0
    /\ ~st.in_trkpt
    /\ out = <<>>
    /\ out_base = 0
    /\ st.idx = 0
    /\ rfc3339_ok(text)
    /\ out_base' = n
    /\ st' = [ in_trkpt |-> FALSE, in_time |-> FALSE, in_ele |-> FALSE,
               cur_lat |-> Some(1), cur_lon |-> Some(1),
               cur_time |-> Some(utc_of(text)), cur_ele |-> None,
               idx |-> n ]
    /\ UNCHANGED <<x_pc, opened, out, p_result>>
    /\ UNCHANGED <<mvars, dvars, zvars>>

LongPointsNext ==
    \/ PointsNext
    \/ \E n \in RunLengths : \E text \in Texts : PReadPoints(n, text)

SpecLongPoints == PointsInit /\ [][LongPointsNext]_vars


(***************************************************************************)
(* File names (main.rs:28-32 TS_RE, main.rs:544-551                        *)
(* parse_start_from_filename).  A name is the sequence of its characters.  *)
(***************************************************************************)
\* (\d{4}-\d{2}-\d{2}T\d{2}_\d{2}_\d{2}[+-]\d{2}_\d{2}): the items of the
\* pattern, a class or the character itself
TS_RE ==
    << "\\d", "\\d", "\\d", "\\d", "-", "\\d", "\\d", "-", "\\d", "\\d", "T",
       "\\d", "\\d", "_", "\\d", "\\d", "_", "\\d", "\\d", "[+-]",
       "\\d", "\\d", "_", "\\d", "\\d" >>

\* \d of the regex crate is the class of the decimal digits of Unicode
is_decimal_digit(c) == is_ascii_digit(c) \/ c = "<U+0663>"

item_matches(item, c) ==
    IF item = "\\d" THEN is_decimal_digit(c)
    ELSE IF item = "[+-]" THEN c \in { "+", "-" }
    ELSE c = item

\* the pattern matches the characters of the name from position i on
matches_at(file_name, i) ==
    /\ i + Len(TS_RE) - 1 <= Len(file_name)
    /\ \A k \in 1..Len(TS_RE) : item_matches(TS_RE[k], file_name[i + k - 1])

\* the first position from i on at which the pattern matches, 0 when none
RECURSIVE leftmost_match(_, _)
leftmost_match(file_name, i) ==
    IF i + Len(TS_RE) - 1 > Len(file_name) THEN 0
    ELSE IF matches_at(file_name, i) THEN i
    ELSE leftmost_match(file_name, i + 1)

\* TS_RE.captures(file_name) and caps.get(1): the leftmost match
ts_re_captures(file_name) ==
    LET first == leftmost_match(file_name, 1)
    IN  IF first = 0 THEN None
        ELSE Some(SubSeq(file_name, first, first + Len(TS_RE) - 1))

\* raw.replace('_', ":")
replace(raw, from, to) == [ i \in DOMAIN raw |-> IF raw[i] = from THEN to ELSE raw[i] ]

parse_start_from_filename(file_name) ==
    LET caps == ts_re_captures(file_name)
        dt_fixed == parse_from_rfc3339(replace(caps[1], "_", ":"))
    IN  IF caps = None THEN None
        ELSE IF dt_fixed = None THEN None
        ELSE Some(with_timezone_utc(dt_fixed[1]))

(***************************************************************************)
(* The file-name harness: an instant is written into a name the way the    *)
(* pattern of TS_RE expects it, between other texts, and the name is given *)
(* to parse_start_from_filename.                                           *)
(***************************************************************************)
\* the instants written into names: the whole seconds 0 .. MaxInstant after
\* the epoch, further ones other than the first of a minute, of an hour and
\* of a day, and two inside a leap second, 1970-01-01T00:00:60 and
\* 1970-01-01T23:59:60
MaxInstant == 2

Instants ==
    { AtSecond(n) : n \in 0 .. MaxInstant }
    \cup { AtSecond(59), AtSecond(86399), AtSecond(2 * SecondsPerDay + 3723) }
    \cup { InstantAt(59, MillisPerSecond), InstantAt(86399, MillisPerSecond) }

\* the offsets [+-]hh_mm a name is written with
Offsets ==
    { Offset("+", 0, 0), Offset("+", 1, 0), Offset("-", 5, 30), Offset("+", 14, 0),
      Offset("-", 0, 0), Offset("-", 23, 59) }

\* YYYY-MM-DDThh_mm_ss[+-]hh_mm for an instant seen at an offset: the local
\* date and time are those of the instant moved east by the offset
written_stamp(instant, offset) ==
    written_date_time(plus_seconds(instant, offset_seconds(offset)), "_")
    \o written_offset(offset, "_")

\* another match of the pattern in the name: 1970-01-01T02_00_00+01_00
OtherInstant == AtSecond(3600)

OtherStamp == written_stamp(OtherInstant, Offset("+", 1, 0))

\* matches of the pattern that are no date-time: 1970-13-01T00_00_00+01_00,
\* whose month no calendar has, and 1970-01-01T00_00_0<U+0663>+00_00, whose
\* last digit of the second is none of ASCII
BadStamp == [ OtherStamp EXCEPT ![6] = "1", ![7] = "3", ![12] = "0", ![13] = "0" ]

ForeignDigitStamp == [ written_stamp(AtSecond(0), Offset("+", 0, 0)) EXCEPT ![19] = "<U+0663>" ]

\* the head of a match, which two digits complete: 1970-01-01T02_00_00+01_
HeadOfStamp == SubSeq(OtherStamp, 1, Len(OtherStamp) - 2)

\* what a name holds before and after the written stamp
Surroundings ==
    { <<>>, << "r", "u", "n", "_" >>, << "2", "0" >>, << ".", "g", "p", "x" >>,
      OtherStamp, BadStamp, ForeignDigitStamp, HeadOfStamp,
      << "a" >> \o OtherStamp \o << "-" >> }

FilenameInit ==
    /\ MergeIdle
    /\ GpxIdle
    /\ CollectIdle
    /\ PrintIdle
    /\ UpsertIdle
    /\ TrackIdle
    /\ ImportIdle
    /\ IngestIdle
    /\ f_pc = "written"
    /\ f_instant \in Instants
    /\ \E offset \in Offsets, before \in Surroundings, after \in Surroundings :
         /\ f_name = before \o written_stamp(f_instant, offset) \o after
         /\ f_at = Len(before) + 1
    /\ f_result = None

ParseName ==
    /\ f_pc = "written"
    /\ f_result' = parse_start_from_filename(f_name)
    /\ f_pc' = "parsed"
    /\ UNCHANGED <<f_instant, f_name, f_at>>
    /\ UNCHANGED <<mvars, xvars, dvars, pvars, cvars, rvars, uvars, kvars, ivars, gvars>>

FilenameNext == ParseName

SpecFilename == FilenameInit /\ [][FilenameNext]_vars

(***************************************************************************)
(* Track files as the collectors see them.  A file has a content that can  *)
(* be read or not, a size (0 for a zero-byte file) and the events the      *)
(* reader yields for its bytes, Eof left out.                              *)
(***************************************************************************)
NoText == [ kind |-> "junk", value |-> <<>> ]

StartEv(name, attrs) == [ ev |-> "Start", name |-> name, attrs |-> attrs, text |-> NoText ]

EndEv(name) == [ ev |-> "End", name |-> name, attrs |-> <<>>, text |-> NoText ]

TextEv(text) == [ ev |-> "Text", name |-> "", attrs |-> <<>>, text |-> text ]

OtherEv == [ ev |-> "Other", name |-> "", attrs |-> <<>>, text |-> NoText ]

ErrEv == [ ev |-> "Err", name |-> "", attrs |-> <<>>, text |-> NoText ]

\* TLC evaluates the arguments of an operator on demand; a loop that carries
\* its state in arguments evaluates them at each round with this test, which
\* is always true
evaluated(v) == v = v

\* the loop of duration_from_gpx over the remaining events
RECURSIVE scan_duration(_, _, _, _)
scan_duration(events, expecting, lo, hi) ==
    IF events = <<>> \/ ~evaluated(<< expecting, lo, hi >>) THEN Ok(duration_of(lo, hi))
    ELSE LET e == Head(events)
             rest == Tail(events)
         IN  IF e.ev = "Err" THEN Ok(None)
             ELSE IF e.ev = "Start"
             THEN scan_duration(rest, IF e.name = "time" THEN TRUE ELSE expecting, lo, hi)
             ELSE IF e.ev = "End"
             THEN scan_duration(rest, IF e.name = "time" THEN FALSE ELSE expecting, lo, hi)
             ELSE IF e.ev = "Text" /\ expecting /\ decode_ok(e.text) /\ rfc3339_ok(e.text)
             THEN scan_duration(rest, expecting,
                                option_min(lo, utc_of(e.text)),
                                option_max(hi, utc_of(e.text)))
             ELSE scan_duration(rest, expecting, lo, hi)

\* faulty variant of duration_from_gpx: a zero-byte file is an error
duration_from_gpx_empty_fails(file) ==
    IF ~file.readable \/ file.size = 0 THEN Err
    ELSE scan_duration(file.events, FALSE, None, None)

\* faulty variant of duration_from_gpx: a markup error is passed on
duration_from_gpx_error_fails(file) ==
    IF ~file.readable THEN Err
    ELSE IF file.size = 0 THEN Ok(None)
    ELSE IF \E i \in DOMAIN file.events : file.events[i].ev = "Err" THEN Err
    ELSE scan_duration(file.events, FALSE, None, None)

duration_from_gpx(file) ==
    IF ~file.readable THEN Err
    ELSE IF file.size = 0 THEN Ok(None)
    ELSE scan_duration(file.events, FALSE, None, None)

\* the loop of parse_gpx_points over the remaining events
RECURSIVE scan_points(_, _, _)
scan_points(events, s, o) ==
    IF events = <<>> \/ ~evaluated(<< s, o >>) THEN Ok(o)
    ELSE LET e == Head(events)
             rest == Tail(events)
         IN  IF e.ev = "Err" THEN Err
             ELSE IF e.ev = "Start" THEN scan_points(rest, handle_gpx_start(s, e.name, e.attrs), o)
             ELSE IF e.ev = "End"
             THEN scan_points(rest, handle_gpx_end(s, e.name, o).st, handle_gpx_end(s, e.name, o).out)
             ELSE IF e.ev = "Text" THEN scan_points(rest, handle_gpx_text(s, e.text), o)
             ELSE scan_points(rest, s, o)

parse_gpx_points(file) ==
    IF ~file.readable THEN Err
    ELSE IF file.size = 0 THEN Ok(<<>>)
    ELSE scan_points(file.events, GpxStateDefault, <<>>)

(***************************************************************************)
(* The entries WalkDir yields under files/: a regular file, a directory or *)
(* an entry that could not be read (dropped by filter_map).  A file name   *)
(* is the sequence of its characters; text is the name as one string.  An  *)
(* entry has the length its metadata tells, none when the metadata cannot  *)
(* be read, and the file that is read at its path later.                   *)
(***************************************************************************)
MaxEntries == 2

FileName(chars) == [ chars |-> chars, text |-> text_of(chars) ]

\* s.to_str(): the name is valid UTF-8
to_str_ok(chars) == \A i \in DOMAIN chars : chars[i] # "<FF>"

\* path.extension(): what follows the last point of the name, none when the
\* name has no point or only one, at its head
extension(chars) ==
    LET points == { i \in DOMAIN chars : chars[i] = "." }
        last == CHOOSE i \in points : \A j \in points : j <= i
    IN  IF points = {} THEN None
        ELSE IF last = 1 THEN None
        ELSE Some(SubSeq(chars, last + 1, Len(chars)))

DotGpx == << ".", "g", "p", "x" >>

\* 1970-01-01T00_00_30+00_00.gpx, run_1970-01-01T01_01_00+01_00.gpx, which
\* starts at 1970-01-01T00:01:00Z, and 1970-01-01T00_00_60+00_00.gpx, which
\* starts inside the leap second before that instant
StampedNames ==
    { FileName(written_stamp(AtSecond(30), Offset("+", 0, 0)) \o DotGpx),
      FileName(<< "r", "u", "n", "_" >> \o written_stamp(AtSecond(60), Offset("+", 1, 0))
               \o DotGpx),
      FileName(written_stamp(InstantAt(59, MillisPerSecond), Offset("+", 0, 0)) \o DotGpx) }

TrackDotGpx == FileName(<< "t", "r", "a", "c", "k" >> \o DotGpx)

\* track.gpx, 1970-13-01T00_00_00+01_00.gpx, 1970-01-01T00_00_0<U+0663>+00_00.gpx
\* and <FF>.gpx
UnstampedNames ==
    { TrackDotGpx,
      FileName(BadStamp \o DotGpx),
      FileName(ForeignDigitStamp \o DotGpx),
      FileName(<< "<FF>" >> \o DotGpx) }

TrackFile(readable, size, events) ==
    [ readable |-> readable, size |-> size, events |-> events ]

time_element(text) == << StartEv("time", <<>>), TextEv(text), EndEv("time") >>

trkpt_element(attrs, text) ==
    << StartEv("trkpt", attrs) >> \o time_element(text) \o << EndEv("trkpt") >>

LatLon == << [ key |-> "lat", value |-> "1" ], [ key |-> "lon", value |-> "1" ] >>

ZeroByteFile == TrackFile(TRUE, 0, <<>>)

TwoTimesFile ==
    TrackFile(TRUE, 1, time_element(ZuluText(10)) \o time_element(ZuluText(20)))

\* two time elements that write one instant at two offsets
EqualInstantsFile ==
    TrackFile(TRUE, 1, time_element(ZuluText(10)) \o time_element(EastText))

\* 1970-01-01T00:00:60Z and 1970-01-01T00:01:00Z: an instant inside a leap
\* second and the start of the second after it
LeapSecondFile ==
    TrackFile(TRUE, 1, time_element(TimestampText(written_zulu(InstantAt(59, MillisPerSecond))))
                       \o time_element(ZuluText(60)))

\* 1970-01-01T00:00:10Z and 1970-01-01T00:00:10.0005Z; and
\* 1970-01-01T23:59:60.500Z and 1970-01-02T00:00:00Z: the leap second is the
\* last of its day
SubMilliFile ==
    TrackFile(TRUE, 1, time_element(ZuluText(10)) \o time_element(SubMilliText))

MidnightLeapFile ==
    TrackFile(TRUE, 1, time_element(TimestampText(written_zulu(
                                        InstantAt(SecondsPerDay - 1, MillisPerSecond + 500))))
                       \o time_element(ZuluText(SecondsPerDay)))

TrackFiles ==
    { TrackFile(FALSE, 1, <<>>),
      ZeroByteFile,
      TrackFile(TRUE, 1, time_element(ZuluText(10))),
      TwoTimesFile,
      EqualInstantsFile,
      LeapSecondFile,
      MidnightLeapFile,
      SubMilliFile,
      TrackFile(TRUE, 1, time_element(NoText)),
      TrackFile(TRUE, 1, << ErrEv >>),
      TrackFile(TRUE, 1, TwoTimesFile.events \o << ErrEv >>),
      TrackFile(TRUE, 1, time_element(ZuluText(10))
                         \o << ErrEv >>
                         \o time_element(ZuluText(20))),
      TrackFile(TRUE, 1, trkpt_element(LatLon, ZuluText(10))
                         \o << OtherEv >>
                         \o trkpt_element(LatLon, ZuluText(20))) }

\* entry.metadata().map(|m| m.len()): the length the metadata tells is that
\* of the file unless the file changes before it is read
Entry(kind, name, file) ==
    [ kind |-> kind, name |-> name, metadata |-> Some(file.size), file |-> file ]

\* the metadata cannot be read, or tells a length the file no longer has
EntryWithMetadata(kind, name, metadata, file) ==
    [ kind |-> kind, name |-> name, metadata |-> metadata, file |-> file ]

Entries ==
    { Entry("file", n, f) : n \in StampedNames, f \in TrackFiles }
    \cup { Entry("file", n, f) : n \in UnstampedNames, f \in { ZeroByteFile, TwoTimesFile } }
    \cup { EntryWithMetadata("file", TrackDotGpx, m, f) :
             m \in { None, Some(0) }, f \in { TwoTimesFile } }
    \cup { EntryWithMetadata("file", TrackDotGpx, Some(1), ZeroByteFile) }
    \cup { Entry(k, FileName(<< "t", "r", "a", "c", "k", ".", "t", "x", "t" >>), TwoTimesFile) :
             k \in { "file", "dir", "error" } }
    \cup { Entry("file", FileName(n), TwoTimesFile) :
             n \in { << "g", "p", "x" >>, DotGpx, << "a", ".", "G", "P", "X" >> } }
    \cup { Entry("dir", TrackDotGpx, ZeroByteFile) }

(***************************************************************************)
(* collect_from_gpx (gpx.rs:12-91): one action per iteration of its loop.  *)
(***************************************************************************)
\* the entry passes the two filters at the head of the loop:
\* entry.file_type().is_file() and
\* path.extension().and_then(|s| s.to_str()) == Some("gpx")
is_gpx_file(e) ==
    /\ e.kind = "file"
    /\ extension(e.name.chars) # None
    /\ to_str_ok(extension(e.name.chars)[1])
    /\ extension(e.name.chars)[1] = << "g", "p", "x" >>

\* entry.metadata().map(|m| m.len()).unwrap_or(0)
size_of(e) == IF e.metadata = None THEN 0 ELSE e.metadata[1]

\* the counters after the iteration on a track file
cnt_after(c, e) ==
    LET c1 == [ c EXCEPT !.seen = @ + 1,
                         !.empty = IF size_of(e) = 0 THEN @ + 1 ELSE @ ]
        start == parse_start_from_filename(e.name.chars)
        d == duration_from_gpx(e.file)
    IN  IF ~to_str_ok(e.name.chars) THEN c1
        ELSE IF start = None THEN [ c1 EXCEPT !.start_fail = @ + 1 ]
        ELSE IF d = Err THEN c1
        ELSE IF is_some(d.value) THEN [ c1 EXCEPT !.with_duration = @ + 1 ]
        ELSE [ c1 EXCEPT !.no_duration = @ + 1 ]

\* the iteration reaches duration_from_gpx
reads_file(e) ==
    /\ is_gpx_file(e)
    /\ to_str_ok(e.name.chars)
    /\ parse_start_from_filename(e.name.chars) # None

workout_of(e) ==
    [ start |-> parse_start_from_filename(e.name.chars)[1],
      duration |-> duration_from_gpx(e.file).value,
      source |-> << "gpx:", e.name.text >> ]

CollectInit ==
    /\ MergeIdle
    /\ GpxIdle
    /\ c_pc = "start"
    /\ visited = <<>>
    /\ cnt = CntZero
    /\ c_out = <<>>
    /\ c_result = Pending
    /\ r_file = None
    /\ r_result = Pending
    /\ PrintIdle
    /\ YIdle

\* !files_dir.exists()
CNoFilesDir ==
    /\ c_pc = "start"
    /\ c_pc' = "returned"
    /\ c_result' = Ok(<<>>)
    /\ UNCHANGED <<visited, cnt, c_out, r_file, r_result>>
    /\ UNCHANGED <<mvars, xvars, dvars, pvars, rvars, yvars>>

CWalk ==
    /\ c_pc = "start"
    /\ c_pc' = "walk"
    /\ UNCHANGED <<visited, cnt, c_out, c_result, r_file, r_result>>
    /\ UNCHANGED <<mvars, xvars, dvars, pvars, rvars, yvars>>

CEntry(e) ==
    /\ c_pc = "walk"
    /\ Len(visited) < MaxEntries
    /\ visited' = Append(visited, e)
    /\ IF ~is_gpx_file(e)
       THEN UNCHANGED <<c_pc, cnt, c_out, c_result>>
       ELSE /\ cnt' = cnt_after(cnt, e)
            /\ IF ~reads_file(e)
               THEN UNCHANGED <<c_pc, c_out, c_result>>
               ELSE IF duration_from_gpx(e.file) = Err
               THEN /\ c_pc' = "returned"
                    /\ c_result' = Err
                    /\ UNCHANGED c_out
               ELSE /\ c_out' = Append(c_out, workout_of(e))
                    /\ UNCHANGED <<c_pc, c_result>>
    /\ UNCHANGED <<r_file, r_result>>
    /\ UNCHANGED <<mvars, xvars, dvars, pvars, rvars, yvars>>

\* the walk is over: out.sort_by(|a, b| b.start.cmp(&a.start)); Ok(out)
CReturn ==
    /\ c_pc = "walk"
    /\ c_pc' = "returned"
    /\ c_result' = Ok(sort_by_start_desc(c_out))
    /\ UNCHANGED <<visited, cnt, c_out, r_file, r_result>>
    /\ UNCHANGED <<mvars, xvars, dvars, pvars, rvars, yvars>>

\* parse_gpx_points called on a track file, as the ingest loop does
ReadPoints(file) ==
    /\ c_pc = "start"
    /\ c_pc' = "points_read"
    /\ r_file' = Some(file)
    /\ r_result' = parse_gpx_points(file)
    /\ UNCHANGED <<visited, cnt, c_out, c_result>>
    /\ UNCHANGED <<mvars, xvars, dvars, pvars, rvars, yvars>>

CollectNext ==
    \/ CNoFilesDir
    \/ CWalk
    \/ \E e \in Entries : CEntry(e)
    \/ CReturn
    \/ \E file \in TrackFiles : ReadPoints(file)

SpecCollect == CollectInit /\ [][CollectNext]_vars

(***************************************************************************)
(* collect_from_gpx as a function of the files/ directory: has_dir tells   *)
(* whether the directory exists, entries are what WalkDir yields, in its   *)
(* order.                                                                  *)
(***************************************************************************)
RECURSIVE collect_loop(_, _)
collect_loop(entries, o) ==
    IF entries = <<>> THEN Ok(sort_by_start_desc(o))
    ELSE IF ~reads_file(Head(entries)) THEN collect_loop(Tail(entries), o)
    ELSE IF duration_from_gpx(Head(entries).file) = Err THEN Err
    ELSE collect_loop(Tail(entries), Append(o, workout_of(Head(entries))))

collect_from_gpx(files) ==
    IF ~files.has_dir THEN Ok(<<>>) ELSE collect_loop(files.entries, <<>>)

(***************************************************************************)
(* The export database (src/src/database.rs).  The file database/          *)
(* Gadgetbridge exists or not, is an SQLite database or not, and holds     *)
(* tables: a name, the names of its columns, its rows in rowid order, and  *)
(* the index the plan of a query ordered by START_TIME can walk: the       *)
(* columns of the index in order, each ascending or descending, none when  *)
(* the table has no index.  The name of a column is the sequence of its    *)
(* characters.  A value stored in START_TIME or END_TIME is NULL or an     *)
(* integer number of milliseconds; in_range tells whether DateTime<Utc>    *)
(* can hold the instant, and for an integer it cannot hold, below tells    *)
(* whether it lies below the range or above it.  ACTIVITY_KIND and         *)
(* DEVICE_ID hold an i64 in two limbs.  RAW_DETAILS is the content of the  *)
(* side file RAW_DETAILS_PATH maps to, when it can be read.                *)
(***************************************************************************)
MaxRows == 2

\* an i64 in two limbs, hi * 2^16 + lo with lo in 0 .. 2^16 - 1
Limb == 2^16

I64(hi, lo) == [ hi |-> hi, lo |-> lo ]

i64_of(v) == I64(v \div Limb, v % Limb)

\* i32::try_from(v).unwrap_or(i32::MAX)
i32_try_from_or_max(v) ==
    IF v.hi >= 0 - 2^15 /\ v.hi < 2^15 THEN v.hi * Limb + v.lo ELSE I32_MAX

Integer(ms) == [ type |-> "integer", ms |-> ms, in_range |-> TRUE, below |-> FALSE ]

HugeInteger == [ type |-> "integer", ms |-> 0, in_range |-> FALSE, below |-> FALSE ]

NegHugeInteger == [ type |-> "integer", ms |-> 0, in_range |-> FALSE, below |-> TRUE ]

Null == [ type |-> "null", ms |-> 0, in_range |-> FALSE, below |-> FALSE ]

Row(start, end, kind, device, track, raw) ==
    [ START_TIME |-> start, END_TIME |-> end, ACTIVITY_KIND |-> i64_of(kind),
      DEVICE_ID |-> i64_of(device), GPX_TRACK |-> track, RAW_DETAILS |-> raw ]

Table(name, columns, rows) ==
    [ name |-> name, columns |-> columns, rows |-> rows, index |-> <<>> ]

\* one column of CREATE INDEX ... (column [DESC], ...), named by the field
\* of the row it orders
IndexColumn(column, desc) == [ column |-> column, desc |-> desc ]

\* a table with CREATE INDEX ... (index)
IndexedTable(name, columns, rows, index) ==
    [ name |-> name, columns |-> columns, rows |-> rows, index |-> index ]

\* the columns the SELECT names, as it writes them
SummaryColumns ==
    { << "_", "i", "d" >>,
      << "N", "A", "M", "E" >>,
      << "S", "T", "A", "R", "T", "_", "T", "I", "M", "E" >>,
      << "E", "N", "D", "_", "T", "I", "M", "E" >>,
      << "A", "C", "T", "I", "V", "I", "T", "Y", "_", "K", "I", "N", "D" >>,
      << "B", "A", "S", "E", "_", "L", "O", "N", "G", "I", "T", "U", "D", "E" >>,
      << "B", "A", "S", "E", "_", "L", "A", "T", "I", "T", "U", "D", "E" >>,
      << "B", "A", "S", "E", "_", "A", "L", "T", "I", "T", "U", "D", "E" >>,
      << "G", "P", "X", "_", "T", "R", "A", "C", "K" >>,
      << "R", "A", "W", "_", "D", "E", "T", "A", "I", "L", "S", "_", "P", "A", "T", "H" >>,
      << "D", "E", "V", "I", "C", "E", "_", "I", "D" >>,
      << "U", "S", "E", "R", "_", "I", "D" >>,
      << "S", "U", "M", "M", "A", "R", "Y", "_", "D", "A", "T", "A" >>,
      << "R", "A", "W", "_", "S", "U", "M", "M", "A", "R", "Y", "_", "D", "A", "T", "A" >> }

UpperCase ==
    << "A", "B", "C", "D", "E", "F", "G", "H", "I", "J", "K", "L", "M", "N", "O", "P", "Q", "R", "S", "T", "U", "V", "W", "X", "Y", "Z" >>

LowerCase ==
    << "a", "b", "c", "d", "e", "f", "g", "h", "i", "j", "k", "l", "m", "n", "o", "p", "q", "r", "s", "t", "u", "v", "w", "x", "y", "z" >>

\* SQLite compares the names of columns without regard to the case of the
\* ASCII letters: the name with its upper-case letters in lower case
UpperToLower ==
    [ c \in { UpperCase[i] : i \in DOMAIN UpperCase } |->
        LowerCase[CHOOSE i \in DOMAIN UpperCase : UpperCase[i] = c] ]

lower_char(c) == IF c \in DOMAIN UpperToLower THEN UpperToLower[c] ELSE c

lower_name(name) == [ i \in DOMAIN name |-> lower_char(name[i]) ]

\* conn.prepare(sql) resolves every column the SELECT names: the table has
\* a column of that name, as written or with letters in the other case
columns_resolve(table) ==
    \A name \in SummaryColumns :
      \/ name \in table.columns
      \/ lower_name(name) \in { lower_name(c) : c \in table.columns }

Database(exists, is_sqlite, tables) ==
    [ exists |-> exists, is_sqlite |-> is_sqlite, tables |-> tables ]

\* SELECT 1 FROM sqlite_master WHERE type='table' AND name=?1
table_exists(db, table) == \E i \in DOMAIN db.tables : db.tables[i].name = table

table_named(db, table) ==
    db.tables[CHOOSE i \in DOMAIN db.tables : db.tables[i].name = table]

\* where a value stands in the order of SQLite: NULL first, then the
\* integers; 0 NULL, 1 below the range of DateTime, 2 in it, 3 above it
sql_class(value) ==
    IF value.type = "null" THEN 0
    ELSE IF value.in_range THEN 2
    ELSE IF value.below THEN 1
    ELSE 3

\* ORDER BY START_TIME DESC: a comes strictly before b
start_desc_before(a, b) ==
    IF sql_class(a) # sql_class(b) THEN sql_class(a) > sql_class(b)
    ELSE sql_class(a) = 2 /\ a.ms > b.ms

\* the order of an index on one column, ascending: -1, 0 or 1
cmp(a, b) == IF a < b THEN 0 - 1 ELSE IF a > b THEN 1 ELSE 0

column_cmp(a, b, column) ==
    IF column \in { "START_TIME", "END_TIME" }
    THEN IF start_desc_before(a[column], b[column]) THEN 1
         ELSE IF start_desc_before(b[column], a[column]) THEN 0 - 1
         ELSE 0
    ELSE IF a[column].hi # b[column].hi THEN cmp(a[column].hi, b[column].hi)
    ELSE cmp(a[column].lo, b[column].lo)

\* the order of the entries of an index before the rowid decides: the first
\* column the rows differ in, reversed when the index holds it descending
RECURSIVE index_cmp(_, _, _)
index_cmp(a, b, index) ==
    IF index = <<>> THEN 0
    ELSE IF column_cmp(a, b, Head(index).column) = 0 THEN index_cmp(a, b, Tail(index))
    ELSE IF Head(index).desc THEN 0 - column_cmp(a, b, Head(index).column)
    ELSE column_cmp(a, b, Head(index).column)

\* the plan reads the rows through the index when START_TIME leads it, and
\* sorts the rows of a table scan otherwise
walks_index(index) == index # <<>> /\ Head(index).column = "START_TIME"

\* the row of the next rowid, the highest so far, comes before a row placed
\* earlier.  The sorter of a table scan keeps rows of equal START_TIME in
\* rowid order.  An index holds its entries in the order of its columns and
\* then of the rowid: one that holds START_TIME descending is walked
\* forwards, one that holds it ascending is walked backwards
row_desc_before(row, other, index) ==
    IF ~walks_index(index) THEN start_desc_before(row.START_TIME, other.START_TIME)
    ELSE IF Head(index).desc THEN index_cmp(row, other, index) < 0
    ELSE index_cmp(row, other, index) >= 0

\* the row of the next rowid takes its place among the rows placed so far
RECURSIVE insert_row_desc(_, _, _)
insert_row_desc(sorted, row, index) ==
    IF sorted = <<>> THEN << row >>
    ELSE IF row_desc_before(row, Head(sorted), index)
         THEN << row >> \o sorted
         ELSE << Head(sorted) >> \o insert_row_desc(Tail(sorted), row, index)

RECURSIVE order_by_start_desc(_, _)
order_by_start_desc(rows, index) ==
    IF rows = <<>> THEN <<>>
    ELSE insert_row_desc(order_by_start_desc(SubSeq(rows, 1, Len(rows) - 1), index),
                         rows[Len(rows)], index)

\* row.get::<i64>(..)? succeeds on an integer
get_i64_ok(value) == value.type = "integer"

\* Utc.timestamp_millis_opt(ms).single(): the instant ms milliseconds after
\* the epoch, which lies inside no leap second
timestamp_millis_opt(value) ==
    IF value.in_range
    THEN Some(InstantAt(value.ms \div MillisPerSecond, value.ms % MillisPerSecond))
    ELSE None

WorkoutSummary(row, store_raw_details) ==
    [ start |-> timestamp_millis_opt(row.START_TIME)[1],
      end |-> timestamp_millis_opt(row.END_TIME)[1],
      activity_kind |-> i32_try_from_or_max(row.ACTIVITY_KIND),
      device_id |-> i32_try_from_or_max(row.DEVICE_ID),
      gpx_track_android |-> row.GPX_TRACK,
      raw_details |-> IF store_raw_details THEN row.RAW_DETAILS ELSE None ]

\* the while loop over the rows of the query
RECURSIVE read_rows(_, _, _)
read_rows(rows, store_raw_details, o) ==
    IF rows = <<>> THEN Ok(o)
    ELSE LET row == Head(rows)
         IN  IF ~get_i64_ok(row.START_TIME) \/ ~get_i64_ok(row.END_TIME) THEN Err
             ELSE IF timestamp_millis_opt(row.START_TIME) = None
             THEN read_rows(Tail(rows), store_raw_details, o)
             ELSE IF timestamp_millis_opt(row.END_TIME) = None
             THEN read_rows(Tail(rows), store_raw_details, o)
             ELSE read_rows(Tail(rows), store_raw_details,
                            Append(o, WorkoutSummary(row, store_raw_details)))

read_base_activity_summary(db, store_raw_details) ==
    IF ~db.exists THEN Ok(<<>>)
    ELSE IF ~db.is_sqlite THEN Err
    ELSE IF ~table_exists(db, "BASE_ACTIVITY_SUMMARY") THEN Err
    ELSE IF ~columns_resolve(table_named(db, "BASE_ACTIVITY_SUMMARY")) THEN Err
    ELSE read_rows(order_by_start_desc(table_named(db, "BASE_ACTIVITY_SUMMARY").rows,
                                       table_named(db, "BASE_ACTIVITY_SUMMARY").index),
                   store_raw_details, <<>>)

\* format!("db:BASE_ACTIVITY_SUMMARY kind={}", s.activity_kind)
db_source(kind) == << "db:", "BASE_ACTIVITY_SUMMARY kind=" \o ToString(kind) >>

db_workout(s) ==
    [ start |-> s.start,
      duration |-> IF earlier(s.start, s.end) THEN Some(signed_duration_since(s.end, s.start))
                   ELSE None,
      source |-> db_source(s.activity_kind) ]

collect_from_db(db) ==
    LET summaries == read_base_activity_summary(db, FALSE)
    IN  IF summaries = Err THEN Err
        ELSE Ok([ i \in DOMAIN summaries.value |-> db_workout(summaries.value[i]) ])

(***************************************************************************)
(* Print mode (main.rs:156-217): the run on an export directory.           *)
(***************************************************************************)
\* track files whose names yield three starts, with two instants 10 s apart,
\* with two instants half a millisecond apart, with one instant written twice, with an instant inside a leap second and
\* a later one, with a markup error after two instants, and one that cannot
\* be read; a track file whose name yields no start
PrintEntries ==
    { Entry("file", FileName(written_stamp(AtSecond(30), Offset("+", 0, 0)) \o DotGpx), f) :
        f \in { TwoTimesFile, SubMilliFile, TrackFile(FALSE, 1, <<>>) } }
    \cup { Entry("file", FileName(<< "r", "u", "n", "_" >>
                                  \o written_stamp(AtSecond(60), Offset("+", 1, 0)) \o DotGpx), f) :
             f \in { EqualInstantsFile, TrackFile(TRUE, 1, TwoTimesFile.events \o << ErrEv >>) } }
    \cup { Entry("file", FileName(written_stamp(InstantAt(59, MillisPerSecond), Offset("+", 0, 0))
                                  \o DotGpx), f) :
             f \in { LeapSecondFile, MidnightLeapFile } }
    \cup { Entry("file", TrackDotGpx, TwoTimesFile) }

FilesDirs ==
    { NoFiles } \cup [ has_dir : { TRUE }, entries : SeqsUpTo(PrintEntries, MaxEntries) ]

SummaryRows ==
    { Row(Integer(30000), Integer(75000), 1, 1, None, None),
      Row(Integer(0 - 500), Integer(40000), 1, 1, None, None),
      Row(Integer(30000), Integer(90030000), 1, 2, None, None),
      Row(Integer(60000), Integer(50000), 2, 1, None, None),
      Row(Null, Integer(75000), 1, 1, None, None),
      Row(HugeInteger, Integer(75000), 1, 1, None, None) }

\* two rows of one START_TIME that differ in END_TIME, in either rowid order
EqualStartRows ==
    { << Row(Integer(30000), Integer(75000), 1, 1, None, None),
         Row(Integer(30000), Integer(90030000), 1, 2, None, None) >>,
      << Row(Integer(30000), Integer(90030000), 1, 2, None, None),
         Row(Integer(30000), Integer(75000), 1, 1, None, None) >> }

\* three rows of one START_TIME whose ACTIVITY_KIND is in neither rowid order
TieRows ==
    << Row(Integer(30000), Integer(75000), 1, 1, None, None),
       Row(Integer(30000), Integer(90000), 3, 2, None, None),
       Row(Integer(30000), Integer(80000), 2, 3, None, None) >>

\* an ACTIVITY_KIND and a DEVICE_ID beyond i32
WideRows ==
    << [ Row(Integer(30000), Integer(75000), 1, 1, None, None)
           EXCEPT !.ACTIVITY_KIND = I64(2^15, 0), !.DEVICE_ID = I64(0 - 2^15 - 1, 5) ] >>

\* the indexes of the workout table: on START_TIME, ascending or descending,
\* on START_TIME and a further column, and on another column
StartIndexes ==
    { << IndexColumn("START_TIME", FALSE) >>,
      << IndexColumn("START_TIME", TRUE) >>,
      << IndexColumn("ACTIVITY_KIND", FALSE) >> }

\* a START_TIME below the range of DateTime between two rows in range
BelowRangeRows ==
    << Row(Integer(30000), Integer(75000), 1, 1, None, None),
       Row(NegHugeInteger, Integer(75000), 1, 1, None, None),
       Row(Integer(60000), Integer(90000), 1, 1, None, None) >>

Databases ==
    { NoDatabase,
      Database(TRUE, FALSE, <<>>),
      Database(TRUE, TRUE, <<>>),
      Database(TRUE, TRUE, << Table("BASE_ACTIVITY_SUMMARY", { << "_", "i", "d" >>, 
                << "S", "T", "A", "R", "T", "_", "T", "I", "M", "E" >> }, <<>>) >>),
      Database(TRUE, TRUE,
               << Table("sleep_samples", { << "s", "t", "a", "r", "t" >>,
                          << "s", "t", "o", "p" >> },
                        << Row(Integer(60000), Integer(90000), 2, 1, None, None) >>),
                  Table("WorkoutSession",
                        { << "s", "t", "a", "r", "t", "T", "i", "m", "e" >>,
                          << "e", "n", "d", "T", "i", "m", "e" >> },
                        << Row(Integer(30000), Integer(75000), 1, 1, None, None) >>) >>) }
    \cup { Database(TRUE, TRUE, << Table("BASE_ACTIVITY_SUMMARY", SummaryColumns, rows) >>) :
             rows \in SeqsUpTo(SummaryRows, MaxRows) }
    \cup { Database(TRUE, TRUE,
                    << IndexedTable("BASE_ACTIVITY_SUMMARY", SummaryColumns, rows, index) >>) :
             rows \in EqualStartRows, index \in StartIndexes }
    \cup { Database(TRUE, TRUE, << table >>) :
             table \in { Table("BASE_ACTIVITY_SUMMARY", SummaryColumns, BelowRangeRows),
                         IndexedTable("BASE_ACTIVITY_SUMMARY", SummaryColumns, BelowRangeRows,
                                      << IndexColumn("START_TIME", FALSE) >>),
                         IndexedTable("BASE_ACTIVITY_SUMMARY", SummaryColumns, TieRows,
                                      << IndexColumn("START_TIME", FALSE),
                                         IndexColumn("ACTIVITY_KIND", FALSE) >>),
                         IndexedTable("BASE_ACTIVITY_SUMMARY", SummaryColumns, TieRows,
                                      << IndexColumn("START_TIME", TRUE),
                                         IndexColumn("ACTIVITY_KIND", FALSE) >>),
                         Table("BASE_ACTIVITY_SUMMARY",
                               { lower_name(c) : c \in SummaryColumns },
                               SubSeq(TieRows, 1, 1)),
                         Table("BASE_ACTIVITY_SUMMARY", SummaryColumns, WideRows) } }

Clis ==
    { [ no_gpx |-> FALSE, no_db |-> FALSE, count |-> 5, verbose |-> FALSE ],
      [ no_gpx |-> FALSE, no_db |-> FALSE, count |-> 5, verbose |-> TRUE ],
      [ no_gpx |-> FALSE, no_db |-> FALSE, count |-> 1, verbose |-> FALSE ],
      [ no_gpx |-> TRUE, no_db |-> FALSE, count |-> 5, verbose |-> FALSE ],
      [ no_gpx |-> FALSE, no_db |-> TRUE, count |-> 5, verbose |-> FALSE ],
      [ no_gpx |-> TRUE, no_db |-> TRUE, count |-> 5, verbose |-> FALSE ] }

\* merged.into_iter().take(cli.count)
take(list, n) == SubSeq(list, 1, IF n < Len(list) THEN n ELSE Len(list))

\* Duration::num_seconds(): whole seconds, the fraction dropped toward zero
num_seconds(d) == IF d.secs < 0 /\ d.nanos > 0 THEN d.secs + 1 ELSE d.secs

unsigned_abs(n) == IF n < 0 THEN 0 - n ELSE n

\* format!("{h:02}:{m:02}:{s:02}"), as the three numbers written
format_duration(d) ==
    LET secs == unsigned_abs(num_seconds(d))
    IN  << secs \div 3600, (secs % 3600) \div 60, secs % 60 >>

\* duration.map_or_else(|| "unknown".to_string(), format_duration)
dur_str(duration) == IF duration = None THEN None ELSE Some(format_duration(duration[1]))

Failed(error) == [ tag |-> "Err", error |-> error, printed |-> <<>>, lines |-> <<>> ]

\* one line of the output, as its tab-separated fields:
\* println!("{}\t{start_s}\t{dur_str}\t{source}", i + 1) when cli.verbose,
\* println!("{dur_str}") otherwise; i counts from 0
print_line(i, w, verbose) ==
    IF verbose THEN << i + 1, to_rfc3339(w.start), dur_str(w.duration), w.source >>
    ELSE << dur_str(w.duration) >>

\* the loop over the Workouts of the list
Printed(list, verbose) ==
    [ tag |-> "Ok", error |-> "", printed |-> list,
      lines |-> [ i \in DOMAIN list |-> print_line(i - 1, list[i], verbose) ] ]

\* what collect_from_gpx and collect_from_db give the run
gpx_collected == IF cli.no_gpx THEN Ok(<<>>) ELSE collect_from_gpx(export.files)

db_collected == IF cli.no_db THEN Ok(<<>>) ELSE collect_from_db(export.db)

PrintInit ==
    /\ MergeIdle
    /\ GpxIdle
    /\ CollectIdle
    /\ YIdle
    /\ export \in [ files : FilesDirs, db : Databases ]
    /\ cli \in Clis
    /\ run = NotRun

\* collect_from_gpx(&export_dir)? fails
PrintGpxFails ==
    /\ run = NotRun
    /\ gpx_collected = Err
    /\ run' = Failed("collect_from_gpx")
    /\ UNCHANGED <<export, cli>>
    /\ UNCHANGED <<mvars, xvars, dvars, pvars, cvars, yvars>>

\* collect_from_db(&export_dir)? fails
PrintDbFails ==
    /\ run = NotRun
    /\ gpx_collected # Err
    /\ db_collected = Err
    /\ run' = Failed("collect_from_db")
    /\ UNCHANGED <<export, cli>>
    /\ UNCHANGED <<mvars, xvars, dvars, pvars, cvars, yvars>>

\* both collectors return: merge, then bail or print
PrintMerged ==
    /\ run = NotRun
    /\ gpx_collected # Err
    /\ db_collected # Err
    /\ workouts' = gpx_collected.value \o db_collected.value
    /\ \E order \in iteration_orders(build_by_key(workouts')) :
         merged' = merge_by_start_minute(workouts', order)
    /\ run' = IF merged' = <<>> THEN Failed("No workouts found")
              ELSE Printed(take(merged', cli.count), cli.verbose)
    /\ UNCHANGED <<workouts2, merged2, m_pc>>
    /\ UNCHANGED <<export, cli>>
    /\ UNCHANGED <<xvars, dvars, pvars, cvars, yvars>>

PrintNext ==
    \/ PrintGpxFails
    \/ PrintDbFails
    \/ PrintMerged

SpecPrint == PrintInit /\ [][PrintNext]_vars

(***************************************************************************)
(* The table workouts of the store (ingest.rs:253-285) and upsert_workout  *)
(* (ingest.rs:309-386).  A row keeps the columns the statement writes from *)
(* the fields of the summary the model carries, its id and its two         *)
(* timestamps.                                                             *)
(***************************************************************************)
MaxUpserts == 3

\* utils.rs:183-186
duration_seconds_i32(d) ==
    LET secs == IF num_seconds(d) < 0 THEN 0 - num_seconds(d) ELSE num_seconds(d)
    IN  IF secs > I32_MAX THEN I32_MAX ELSE secs

\* the summaries given to upsert_workout
UpsertSummaries ==
    { WorkoutSummary(Row(Integer(start), Integer(end), kind, device, None, None), TRUE) :
        start \in { 30500, 60000 }, end \in { 20000, 75000 }, kind \in { 1, 2 },
        device \in { 1, 2 } }

\* the row the statement writes for a summary
workouts_row(s, id, created_at, updated_at) ==
    [ id |-> id,
      device_id |-> s.device_id,
      activity_kind |-> s.activity_kind,
      start_time |-> to_sql(s.start),
      end_time |-> to_sql(s.end),
      duration_s |-> duration_seconds_i32(signed_duration_since(s.end, s.start)),
      gpx_track_android |-> s.gpx_track_android,
      raw_details |-> s.raw_details,
      created_at |-> created_at,
      updated_at |-> updated_at ]

\* the rows the INSERT conflicts with under UNIQUE (device_id, start_time)
conflicting(rows, s) ==
    { r \in rows : r.device_id = s.device_id /\ r.start_time = to_sql(s.start) }

\* faulty variant of upsert_workout: the statement without its ON CONFLICT
\* clause, on a table without the UNIQUE constraint
insert_workout(rows, s, id, now) ==
    [ rows |-> rows \cup { workouts_row(s, id, now, now) }, id |-> id ]

\* INSERT INTO workouts (...) VALUES (...) ON CONFLICT (device_id, start_time)
\* DO UPDATE SET ..., updated_at = now() RETURNING id.  id is the value drawn
\* from the sequence for the row proposed for insertion; UNIQUE leaves at
\* most one row to conflict with.  The result is the table and the id
\* returned.
upsert_workout(rows, s, id, now) ==
    IF conflicting(rows, s) = {}
    THEN [ rows |-> rows \cup { workouts_row(s, id, now, now) }, id |-> id ]
    ELSE LET r == CHOOSE c \in conflicting(rows, s) : TRUE
         IN  [ rows |-> (rows \ { r }) \cup { workouts_row(s, r.id, r.created_at, now) },
               id |-> r.id ]

UpsertInit ==
    /\ MergeIdle
    /\ GpxIdle
    /\ CollectIdle
    /\ PrintIdle
    /\ FilenameIdle
    /\ TrackIdle
    /\ ImportIdle
    /\ IngestIdle
    /\ u_rows = {}
    /\ u_seq = 0
    /\ u_now = 0
    /\ u_last = None

\* one call upsert_workout(pg, s); the clock may have advanced since the
\* previous statement
Upsert(s) ==
    /\ u_seq < MaxUpserts
    /\ u_seq' = u_seq + 1
    /\ \E dt \in { 0, 1 } : u_now' = u_now + dt
    /\ u_rows' = upsert_workout(u_rows, s, u_seq', u_now').rows
    /\ u_last' = Some([ summary |-> s,
                        id |-> upsert_workout(u_rows, s, u_seq', u_now').id,
                        again |-> u_last # None /\ u_last[1].summary = s ])
    /\ UNCHANGED <<mvars, xvars, dvars, pvars, cvars, rvars, fvars, kvars, ivars, gvars>>

UpsertNext == \E s \in UpsertSummaries : Upsert(s)

SpecUpsert == UpsertInit /\ [][UpsertNext]_vars

(***************************************************************************)
(* One track file read in both modes.  The file is a sequence of elements: *)
(* a point element with its attributes, an optional time element and an    *)
(* optional ele element; a time or an ele element outside any point        *)
(* element; a point element that holds, after its own time and ele, a      *)
(* second point element with valid coordinates and an optional time.       *)
(***************************************************************************)
MaxItems == 2

NumberText == [ kind |-> "number", value |-> << 5 >> ]

ele_element(text) == << StartEv("ele", <<>>), TextEv(text), EndEv("ele") >>

TrackItem(kind, coords, time, ele, in_time) ==
    [ kind |-> kind, coords |-> coords, time |-> time, ele |-> ele, in_time |-> in_time ]

ItemTimes == { None, Some(ZuluText(10)), Some(SubMilliText), Some(ZuluText(20)), Some(NoText) }

ItemEles == { None, Some(NumberText) }

TrackItems ==
    { TrackItem("point", c, t, e, None) : c \in BOOLEAN, t \in ItemTimes, e \in ItemEles }
    \cup { TrackItem("time", FALSE, Some(ZuluText(10)), None, None),
           TrackItem("ele", FALSE, None, Some(NumberText), None) }
    \cup { TrackItem("nested", TRUE, Some(ZuluText(10)), Some(NumberText), t) :
             t \in { None, Some(ZuluText(20)) } }

\* the events the reader yields for an element
optional_time(time) == IF time = None THEN <<>> ELSE time_element(time[1])

optional_ele(ele) == IF ele = None THEN <<>> ELSE ele_element(ele[1])

item_events(item) ==
    IF item.kind = "time" THEN optional_time(item.time)
    ELSE IF item.kind = "ele" THEN optional_ele(item.ele)
    ELSE << StartEv("trkpt", IF item.coords THEN LatLon ELSE <<>>) >>
         \o optional_time(item.time)
         \o optional_ele(item.ele)
         \o (IF item.kind = "nested"
             THEN << StartEv("trkpt", LatLon) >> \o optional_time(item.in_time)
                  \o << EndEv("trkpt") >>
             ELSE <<>>)
         \o << EndEv("trkpt") >>

RECURSIVE items_events(_)
items_events(items) ==
    IF items = <<>> THEN <<>> ELSE item_events(Head(items)) \o items_events(Tail(items))

\* the file of the elements, inside its root element
track_file_of(items) ==
    TrackFile(TRUE, 1, << OtherEv >> \o items_events(items))

TrackInit ==
    /\ MergeIdle
    /\ GpxIdle
    /\ CollectIdle
    /\ PrintIdle
    /\ FilenameIdle
    /\ UpsertIdle
    /\ ImportIdle
    /\ IngestIdle
    /\ k_items \in SeqsUpTo(TrackItems, MaxItems)
    /\ k_points = Pending
    /\ k_duration = Pending

ReadTrackPoints ==
    /\ k_points = Pending
    /\ k_points' = parse_gpx_points(track_file_of(k_items))
    /\ UNCHANGED <<k_items, k_duration>>
    /\ UNCHANGED <<mvars, xvars, dvars, pvars, cvars, rvars, fvars, uvars, ivars, gvars>>

ReadTrackDuration ==
    /\ k_duration = Pending
    /\ k_duration' = duration_from_gpx(track_file_of(k_items))
    /\ UNCHANGED <<k_items, k_points>>
    /\ UNCHANGED <<mvars, xvars, dvars, pvars, cvars, rvars, fvars, uvars, ivars, gvars>>

TrackNext == ReadTrackPoints \/ ReadTrackDuration

SpecTrack == TrackInit /\ [][TrackNext]_vars

(***************************************************************************)
(* The table workout_points (ingest.rs:289-297) and                        *)
(* import_points_for_workout (ingest.rs:388-412), one action per           *)
(* statement.  The transaction works on its own view of the table; commit  *)
(* makes the view the table, and a statement that fails returns through ?  *)
(* and drops the transaction, which rolls it back.                         *)
(***************************************************************************)
MaxImports == 2

TrackPoint(idx, t, ele) == [ idx |-> idx, t |-> t, lat |-> 1, lon |-> 1, ele |-> ele ]

\* the point lists given to import_points_for_workout; the last one holds a
\* repeated idx, as a list of more than i32::MAX points does
PointLists ==
    { <<>>,
      << TrackPoint(0, AtSecond(10), None) >>,
      << TrackPoint(0, AtSecond(10), Some(5)), TrackPoint(1, AtSecond(20), None) >>,
      << TrackPoint(0, AtSecond(20), None), TrackPoint(1, AtSecond(20), None) >>,
      << TrackPoint(0, AtSecond(10), None), TrackPoint(0, AtSecond(20), None) >> }

WorkoutIds == { 1, 2 }

\* the row the INSERT writes for a point
points_row(workout_id, pt) ==
    [ workout_id |-> workout_id, idx |-> pt.idx, t |-> to_sql(pt.t), lat |-> pt.lat,
      lon |-> pt.lon,
      ele |-> pt.ele ]

points_rows(workout_id, points) ==
    { points_row(workout_id, points[i]) : i \in DOMAIN points }

\* PRIMARY KEY (workout_id, idx)
key_taken(rows, workout_id, pt) ==
    \E r \in rows : r.workout_id = workout_id /\ r.idx = pt.idx

\* faulty variant of delete_points: nothing is deleted
delete_no_points(rows, workout_id) == rows

\* DELETE FROM workout_points WHERE workout_id=$1
delete_points(rows, workout_id) == { r \in rows : r.workout_id # workout_id }

\* the tables an earlier run can have left: no points, or points of both
\* workouts
StoredPoints ==
    { {},
      points_rows(1, << TrackPoint(0, AtSecond(10), None), TrackPoint(1, AtSecond(20), None), TrackPoint(2, AtSecond(20), None) >>)
        \cup points_rows(2, << TrackPoint(0, AtSecond(10), None) >>) }

ImportInit ==
    /\ MergeIdle
    /\ GpxIdle
    /\ CollectIdle
    /\ PrintIdle
    /\ FilenameIdle
    /\ UpsertIdle
    /\ TrackIdle
    /\ IngestIdle
    /\ w_points \in StoredPoints
    /\ i_pc = "idle"
    /\ i_call = NoCall
    /\ i_tx = None
    /\ i_k = 0
    /\ i_result = "pending"
    /\ i_before = w_points
    /\ i_prev = None
    /\ i_n = 0

IUnchanged == UNCHANGED <<mvars, xvars, dvars, pvars, cvars, rvars, fvars, uvars, kvars, gvars>>

\* the call itself: the arguments are bound, nothing is executed yet
import_called(workout_id, points) ==
    /\ i_n' = i_n + 1
    /\ i_pc' = "called"
    /\ i_call' = [ workout_id |-> workout_id, points |-> points ]
    /\ i_before' = w_points
    /\ i_prev' = IF i_result = "Ok" THEN Some([ call |-> i_call, after |-> w_points ])
                  ELSE i_prev
    /\ i_result' = "pending"
    /\ i_k' = 0
    /\ UNCHANGED <<w_points, i_tx>>

\* import_points_for_workout(pg, workout_id, points) is called
ImportCall(workout_id, points) ==
    /\ i_pc \in { "idle", "returned" }
    /\ i_n < MaxImports
    /\ import_called(workout_id, points)
    /\ IUnchanged

\* pg.transaction()
ImportBegin ==
    /\ i_pc = "called"
    /\ i_pc' = "begun"
    /\ i_tx' = Some(w_points)
    /\ UNCHANGED <<w_points, i_call, i_k, i_result, i_before, i_prev, i_n>>
    /\ IUnchanged

\* faulty variant of ImportDelete: the DELETE runs on the connection, not in
\* the transaction
ImportDelete_outside_transaction ==
    /\ i_pc = "begun"
    /\ i_pc' = "deleted"
    /\ w_points' = delete_points(w_points, i_call.workout_id)
    /\ i_tx' = Some(delete_points(i_tx[1], i_call.workout_id))
    /\ UNCHANGED <<i_call, i_k, i_result, i_before, i_prev, i_n>>
    /\ IUnchanged

\* tx.execute("DELETE FROM workout_points WHERE workout_id=$1")
ImportDelete ==
    /\ i_pc = "begun"
    /\ i_pc' = "deleted"
    /\ i_tx' = Some(delete_points(i_tx[1], i_call.workout_id))
    /\ UNCHANGED <<w_points, i_call, i_k, i_result, i_before, i_prev, i_n>>
    /\ IUnchanged

\* tx.prepare("INSERT INTO workout_points ...")
ImportPrepare ==
    /\ i_pc = "deleted"
    /\ i_pc' = "inserting"
    /\ UNCHANGED <<w_points, i_call, i_tx, i_k, i_result, i_before, i_prev, i_n>>
    /\ IUnchanged

\* the statement failed: ? returns the error and the transaction, if one
\* is open, is dropped without commit
import_returns_err ==
    /\ i_pc' = "returned"
    /\ i_result' = "Err"
    /\ i_tx' = None
    /\ UNCHANGED <<w_points, i_call, i_k, i_before, i_prev, i_n>>

\* tx.execute(&stmt, ...) for the next point; a key already in the table
\* makes the statement fail
ImportInsert ==
    /\ i_pc = "inserting"
    /\ i_k < Len(i_call.points)
    /\ IF key_taken(i_tx[1], i_call.workout_id, i_call.points[i_k + 1])
       THEN import_returns_err
       ELSE /\ i_tx' = Some(i_tx[1] \cup { points_row(i_call.workout_id, i_call.points[i_k + 1]) })
            /\ i_k' = i_k + 1
            /\ UNCHANGED <<w_points, i_pc, i_call, i_result, i_before, i_prev, i_n>>
    /\ IUnchanged

\* tx.commit()
ImportCommit ==
    /\ i_pc = "inserting"
    /\ i_k = Len(i_call.points)
    /\ w_points' = i_tx[1]
    /\ i_tx' = None
    /\ i_pc' = "returned"
    /\ i_result' = "Ok"
    /\ UNCHANGED <<i_call, i_k, i_before, i_prev, i_n>>
    /\ IUnchanged

\* the next statement fails for a reason of the store or the connection:
\* starting the transaction, the DELETE, the prepare, an INSERT, the commit
ImportFails ==
    /\ i_pc \in { "called", "begun", "deleted", "inserting" }
    /\ import_returns_err
    /\ IUnchanged

ImportSteps ==
    \/ ImportBegin
    \/ ImportDelete
    \/ ImportPrepare
    \/ ImportInsert
    \/ ImportCommit
    \/ ImportFails

ImportNext ==
    \/ \E workout_id \in WorkoutIds, points \in PointLists : ImportCall(workout_id, points)
    \/ ImportSteps

SpecImport == ImportInit /\ [][ImportNext]_vars

(***************************************************************************)
(* connect_or_create_db (ingest.rs:71-98) run by several clients of one    *)
(* server at once, one action per statement.  A statement of the server    *)
(* is atomic.  Each statement can also fail for a reason that has nothing  *)
(* to do with the database being there or not (unrelated).                 *)
(***************************************************************************)
\* u8::is_ascii_alphanumeric
AsciiAlphanumeric ==
    { "a", "b", "c", "d", "e", "f", "g", "h", "i", "j", "k", "l", "m",
      "n", "o", "p", "q", "r", "s", "t", "u", "v", "w", "x", "y", "z",
      "A", "B", "C", "D", "E", "F", "G", "H", "I", "J", "K", "L", "M",
      "N", "O", "P", "Q", "R", "S", "T", "U", "V", "W", "X", "Y", "Z",
      "0", "1", "2", "3", "4", "5", "6", "7", "8", "9" }

\* the name test of create_database: not empty, every byte an ASCII letter,
\* a digit or _
name_is_safe(db_name) ==
    db_name # <<>>
    /\ \A i \in DOMAIN db_name : db_name[i] \in AsciiAlphanumeric \/ db_name[i] = "_"

DbNames == { DbName, << "F", "_", "2" >>, << "f", "-", "1" >> }

Started == [ NotStarted EXCEPT !.pc = "start" ]

CreateInit ==
    /\ MergeIdle
    /\ GpxIdle
    /\ CollectIdle
    /\ PrintIdle
    /\ FilenameIdle
    /\ UpsertIdle
    /\ TrackIdle
    /\ ImportIdle
    /\ pg_url \in DbNames
    /\ databases \in { {}, { pg_url } }
    /\ clients = [ c \in Clients |-> Started ]
    /\ g_pc = "idle"
    /\ g_build = "ingest.rs"
    /\ g_cli = [ with_points |-> FALSE, store_raw_details |-> FALSE ]
    /\ g_export = NoExport
    /\ g_todo = <<>>
    /\ g_id = 0
    /\ g_schema = NoSchema
    /\ g_hist = NoHistory

QUnchanged ==
    UNCHANGED <<mvars, xvars, dvars, pvars, cvars, rvars, fvars, uvars, kvars, ivars,
                g_pc, g_build, g_cli, g_export, g_todo, g_id, g_schema, g_hist, pg_url>>

\* the function returns Err after an error of the named kind
returns_err(client, unrelated) ==
    [ client EXCEPT !.pc = "returned", !.result = "Err",
                    !.unrelated = client.unrelated \/ unrelated ]

\* match Client::connect(pg_url, NoTls): Ok returns the client, 3D000 goes
\* on, any other error returns
CreateConnect(c) ==
    /\ clients[c].pc = "start"
    /\ \/ /\ pg_url \in databases
          /\ clients' = [ clients EXCEPT ![c] =
                            [ @ EXCEPT !.pc = "returned", !.first = "ok", !.result = "Ok" ] ]
       \/ /\ pg_url \notin databases
          /\ clients' = [ clients EXCEPT ![c] = [ @ EXCEPT !.pc = "missing", !.first = "3D000" ] ]
       \/ clients' = [ clients EXCEPT ![c] = returns_err([ @ EXCEPT !.first = "other" ], TRUE) ]
    /\ UNCHANGED databases
    /\ QUnchanged

\* admin_urls_for_create_db(pg_url)? and the connection to postgres, else
\* to template1
CreateAdminConnect(c) ==
    /\ clients[c].pc = "missing"
    /\ \/ clients' = [ clients EXCEPT ![c] = [ @ EXCEPT !.pc = "admin" ] ]
       \/ clients' = [ clients EXCEPT ![c] = returns_err(@, TRUE) ]
    /\ UNCHANGED databases
    /\ QUnchanged

\* database_exists(&mut admin, &db_name)?
CreateCheck(c) ==
    /\ clients[c].pc = "admin"
    /\ \/ clients' = [ clients EXCEPT ![c] =
                         [ @ EXCEPT !.pc = IF pg_url \in databases THEN "reconnect" ELSE "create",
                                    !.found = IF pg_url \in databases THEN "yes" ELSE "no" ] ]
       \/ clients' = [ clients EXCEPT ![c] = returns_err(@, TRUE) ]
    /\ UNCHANGED databases
    /\ QUnchanged

\* faulty variant of create_outcome: duplicate_database is an error like any other
create_outcome_strict(client, code) ==
    IF code = "ok" THEN [ client EXCEPT !.pc = "reconnect", !.code = code ]
    ELSE returns_err([ client EXCEPT !.code = code ], code = "other")

\* the match of create_database on the outcome of CREATE DATABASE: Ok and
\* 42P04 are Ok, any other error is returned
create_outcome(client, code) ==
    IF code \in { "ok", "42P04" } THEN [ client EXCEPT !.pc = "reconnect", !.code = code ]
    ELSE returns_err([ client EXCEPT !.code = code ], code = "other")

\* create_database(&mut admin, &db_name)?: an unsafe name is refused before
\* any statement; else CREATE DATABASE is issued
CreateDatabase(c) ==
    /\ clients[c].pc = "create"
    /\ IF ~name_is_safe(pg_url)
       THEN /\ clients' = [ clients EXCEPT ![c] = returns_err([ @ EXCEPT !.code = "refused" ], FALSE) ]
            /\ UNCHANGED databases
       ELSE \/ /\ pg_url \notin databases
               /\ databases' = databases \cup { pg_url }
               /\ clients' = [ clients EXCEPT ![c] =
                                 create_outcome([ @ EXCEPT !.creates = @ + 1 ], "ok") ]
            \/ /\ pg_url \in databases
               /\ clients' = [ clients EXCEPT ![c] =
                                 create_outcome([ @ EXCEPT !.creates = @ + 1 ], "42P04") ]
               /\ UNCHANGED databases
            \/ /\ clients' = [ clients EXCEPT ![c] =
                                 create_outcome([ @ EXCEPT !.creates = @ + 1 ], "other") ]
               /\ UNCHANGED databases
    /\ QUnchanged

\* Client::connect(pg_url, NoTls) after the creation
CreateReconnect(c) ==
    /\ clients[c].pc = "reconnect"
    /\ \/ /\ pg_url \in databases
          /\ clients' = [ clients EXCEPT ![c] = [ @ EXCEPT !.pc = "returned", !.result = "Ok" ] ]
       \/ /\ pg_url \notin databases
          /\ clients' = [ clients EXCEPT ![c] = returns_err(@, FALSE) ]
       \/ clients' = [ clients EXCEPT ![c] = returns_err(@, TRUE) ]
    /\ UNCHANGED databases
    /\ QUnchanged

CreateNext ==
    \E c \in Clients :
        \/ CreateConnect(c)
        \/ CreateAdminConnect(c)
        \/ CreateCheck(c)
        \/ CreateDatabase(c)
        \/ CreateReconnect(c)

SpecCreate == CreateInit /\ [][CreateNext]_vars

(***************************************************************************)
(* One ingest run, one action per statement of ingest and per round trip   *)
(* to the server of the functions it calls.  The repository holds two      *)
(* ingest functions: that of ingest.rs (connect_or_create_db, both options *)
(* fixed to true, the materialized view ensured and refreshed) and that of *)
(* main.rs (Client::connect, the options of the command line, no           *)
(* materialized view).  g_build says which one runs.  The export is the    *)
(* table BASE_ACTIVITY_SUMMARY and the track files under files/; the       *)
(* server is fresh, has an empty database, or holds what an earlier run    *)
(* left.  Other clients of the server act between the round trips of       *)
(* connect_or_create_db and of ensure_workout_distance_matview.            *)
(***************************************************************************)
MaxSummaries == 2

Builds == { "ingest.rs", "main.rs" }

\* the options the run works with: ingest.rs:12-13 sets both to true,
\* main.rs:226-227 takes them from the command line
ingest_flags(build, options) ==
    IF build = "ingest.rs" THEN [ with_points |-> TRUE, store_raw_details |-> TRUE ]
    ELSE options

\* A path is its text split at every "/": "/sdcard/a.gpx" is
\* << "", "sdcard", "a.gpx" >>, "/" is << "", "" >>, "" is << "" >>.
\* Path::components(): the root when the text starts with "/", then the
\* names; an empty name is dropped, and a "." is dropped unless the text
\* starts with it
component_kind(part) ==
    IF part = "" THEN "RootDir"
    ELSE IF part = "." THEN "CurDir"
    ELSE IF part = ".." THEN "ParentDir"
    ELSE "Normal"

components(path) ==
    LET kept == SelectSeq([ i \in DOMAIN path |-> [ at |-> i, part |-> path[i] ] ],
                          LAMBDA c : IF c.at = 1 THEN c.part # "" \/ Len(path) > 1
                                     ELSE c.part \notin { "", "." })
    IN  [ i \in DOMAIN kept |-> [ kind |-> component_kind(kept[i].part), part |-> kept[i].part ] ]

\* Path::new(android_path).file_name(): the last component when it is a
\* name; none for "/", and none when the last component is ".." or "."
file_name(path) ==
    LET parts == components(path)
    IN  IF parts = <<>> THEN None
        ELSE IF parts[Len(parts)].kind # "Normal" THEN None
        ELSE Some(parts[Len(parts)].part)

map_android_gpx_to_export(android_path) ==
    IF file_name(android_path) = None THEN None
    ELSE Some(<< "files", file_name(android_path)[1] >>)

TimedPoint(seconds, ele) ==
    TrackItem("point", TRUE, Some(ZuluText(seconds)), ele, None)

\* the track files of the export: two points, one point, a point element
\* without coordinates, a file that cannot be read
ExportFiles ==
    [ name \in { "a.gpx", "b.gpx", "none.gpx", "bad.gpx" } |->
        IF name = "a.gpx"
        THEN track_file_of(<< TimedPoint(10, Some(NumberText)), TimedPoint(20, None) >>)
        ELSE IF name = "b.gpx" THEN track_file_of(<< TimedPoint(20, None) >>)
        ELSE IF name = "none.gpx"
        THEN track_file_of(<< TrackItem("point", FALSE, Some(ZuluText(10)),
                                        None, None) >>)
        ELSE TrackFile(FALSE, 1, <<>>) ]

\* gpx_path.exists()
path_exists(path) == path[2] \in DOMAIN ExportFiles

\* the file whose points the loop body parses for a summary, none when it
\* reaches a continue first
gpx_path_of(summary) ==
    IF summary.gpx_track_android = None THEN None
    ELSE IF map_android_gpx_to_export(summary.gpx_track_android[1]) = None THEN None
    ELSE IF ~path_exists(map_android_gpx_to_export(summary.gpx_track_android[1])[1]) THEN None
    ELSE map_android_gpx_to_export(summary.gpx_track_android[1])

IngestRow(start, track, raw) ==
    Row(Integer(start * MillisPerSecond), Integer(75 * MillisPerSecond), 1, 1, track, raw)

\* the rows of the export: one workout with each kind of track reference,
\* and a second workout
IngestRows ==
    { IngestRow(30, None, None),
      IngestRow(30, Some(<< "", "sdcard", "a.gpx" >>), Some(7)),
      IngestRow(30, Some(<< "", "sdcard", "b.gpx" >>), None),
      IngestRow(30, Some(<< "", "sdcard", "gone.gpx" >>), None),
      IngestRow(30, Some(<< "", "sdcard", "none.gpx" >>), None),
      IngestRow(30, Some(<< "", "" >>), None),
      IngestRow(30, Some(<< "", "sdcard", "bad.gpx" >>), None),
      IngestRow(60, Some(<< "", "sdcard", "a.gpx" >>), None) }

\* the workout table of the export, with or without an index on START_TIME
ExportTables ==
    { Table("BASE_ACTIVITY_SUMMARY", SummaryColumns, rows) :
        rows \in SeqsUpTo(IngestRows, MaxSummaries) }
    \cup { IndexedTable("BASE_ACTIVITY_SUMMARY", SummaryColumns, rows,
                        << IndexColumn("START_TIME", FALSE) >>) :
             rows \in { r \in SeqsUpTo(IngestRows, MaxSummaries) : Len(r) > 1 } }

export_db(table) == Database(TRUE, TRUE, << table >>)

\* what the server holds when the run starts: nothing, an empty database,
\* the workout and the two points an earlier run of the same binary stored
\* for the first workout, or what a run of ingest.rs has created when it is,
\* or ended, between CREATE MATERIALIZED VIEW and CREATE UNIQUE INDEX
Servers(build) ==
    { [ databases |-> {}, schema |-> NoSchema, rows |-> {}, seq |-> 0, points |-> {} ],
      [ databases |-> { DbName }, schema |-> NoSchema, rows |-> {}, seq |-> 0, points |-> {} ],
      [ databases |-> { DbName },
        schema |-> [ tables |-> TRUE, matview |-> build = "ingest.rs",
                     index |-> build = "ingest.rs" ],
        rows |-> upsert_workout({}, WorkoutSummary(IngestRow(30, Some(<< "", "sdcard", "a.gpx" >>),
                                                             None), TRUE), 1, 0).rows,
        seq |-> 1,
        points |-> points_rows(1, parse_gpx_points(ExportFiles["a.gpx"]).value) ] }
    \cup (IF build = "ingest.rs"
          THEN { [ databases |-> { DbName },
                   schema |-> [ tables |-> TRUE, matview |-> TRUE, index |-> FALSE ],
                   rows |-> {}, seq |-> 0, points |-> {} ] }
          ELSE {})

IngestInit ==
    /\ MergeIdle
    /\ GpxIdle
    /\ CollectIdle
    /\ PrintIdle
    /\ FilenameIdle
    /\ TrackIdle
    /\ g_build \in Builds
    /\ g_cli \in [ with_points : BOOLEAN, store_raw_details : BOOLEAN ]
    /\ g_export \in ExportTables
    /\ \E server \in Servers(g_build) :
         /\ databases = server.databases
         /\ g_schema = server.schema
         /\ u_rows = server.rows
         /\ u_seq = server.seq
         /\ w_points = server.points
         /\ i_before = server.points
         /\ g_hist = [ NoHistory EXCEPT !.before = server.points ]
    /\ u_now = 0
    /\ u_last = None
    /\ i_pc = "idle"
    /\ i_call = NoCall
    /\ i_tx = None
    /\ i_k = 0
    /\ i_result = "pending"
    /\ i_prev = None
    /\ i_n = 0
    /\ g_pc = "start"
    /\ g_todo = <<>>
    /\ g_id = 0
    /\ pg_url = DbName
    /\ clients = [ c \in Clients |->
                     IF c = 1 /\ g_build = "ingest.rs" THEN Started ELSE NotStarted ]

GUnchanged == UNCHANGED <<mvars, xvars, dvars, pvars, cvars, rvars, fvars, kvars, pg_url, clients>>

\* main.rs:229: Client::connect(pg_url, NoTls)?, which needs the database
IngestConnect ==
    /\ g_pc = "start"
    /\ g_build = "main.rs"
    /\ \/ pg_url \in databases /\ g_pc' = "connected"
       \/ g_pc' = "failed"
    /\ UNCHANGED <<databases, g_build, g_cli, g_export, g_todo, g_id, g_schema, g_hist, uvars,
                   ivars>>
    /\ GUnchanged

\* ingest.rs:15: the run is client 1 of the server, and each round trip of
\* its connect_or_create_db(pg_url) is a step of its own
IngestCreateStep ==
    /\ g_pc = "start"
    /\ g_build = "ingest.rs"
    /\ \/ CreateConnect(1)
       \/ CreateAdminConnect(1)
       \/ CreateCheck(1)
       \/ CreateDatabase(1)
       \/ CreateReconnect(1)

\* CREATE DATABASE of another client of the server is executed between two
\* round trips of the run
OtherClientCreates ==
    /\ g_pc = "start"
    /\ g_build = "ingest.rs"
    /\ clients[1].pc # "returned"
    /\ pg_url \notin databases
    /\ databases' = databases \cup { pg_url }
    /\ UNCHANGED clients
    /\ QUnchanged

\* let mut pg = connect_or_create_db(pg_url)?
IngestConnected ==
    /\ g_pc = "start"
    /\ g_build = "ingest.rs"
    /\ clients[1].pc = "returned"
    /\ g_pc' = IF clients[1].result = "Ok" THEN "connected" ELSE "failed"
    /\ UNCHANGED <<databases, g_build, g_cli, g_export, g_todo, g_id, g_schema, g_hist, uvars,
                   ivars>>
    /\ GUnchanged

\* the batch of CREATE TABLE IF NOT EXISTS and CREATE INDEX IF NOT EXISTS of
\* ensure_pg_schema, one round trip; main.rs returns Ok after it, ingest.rs
\* goes on to ensure_workout_distance_matview(pg)?
IngestEnsureSchema ==
    /\ g_pc = "connected"
    /\ \/ /\ g_schema' = [ g_schema EXCEPT !.tables = TRUE ]
          /\ g_hist' = [ g_hist EXCEPT !.ensured = g_build = "main.rs" ]
          /\ g_pc' = IF g_build = "ingest.rs" THEN "tables" ELSE "ensured"
       \/ /\ g_pc' = "failed"
          /\ UNCHANGED <<g_schema, g_hist>>
    /\ UNCHANGED <<databases, g_build, g_cli, g_export, g_todo, g_id, uvars, ivars>>
    /\ GUnchanged

\* ingest.rs:174-190: SELECT EXISTS (... FROM pg_matviews ...)?, and the
\* return of Ok when the view exists, whether or not its index does
IngestCheckMatview ==
    /\ g_pc = "tables"
    /\ \/ /\ g_schema.matview
          /\ g_hist' = [ g_hist EXCEPT !.ensured = TRUE ]
          /\ g_pc' = "ensured"
       \/ /\ ~g_schema.matview
          /\ g_pc' = "create_view"
          /\ UNCHANGED g_hist
       \/ /\ g_pc' = "failed"
          /\ UNCHANGED g_hist
    /\ UNCHANGED <<databases, g_build, g_cli, g_export, g_todo, g_id, g_schema, uvars, ivars>>
    /\ GUnchanged

\* ingest.rs:195-228 in another run of ingest.rs: its CREATE MATERIALIZED
\* VIEW is executed between the check of this run and its own CREATE
OtherRunCreatesMatview ==
    /\ g_pc = "create_view"
    /\ ~g_schema.matview
    /\ g_schema' = [ g_schema EXCEPT !.matview = TRUE ]
    /\ UNCHANGED <<databases, g_pc, g_build, g_cli, g_export, g_todo, g_id, g_hist, uvars,
                   ivars>>
    /\ GUnchanged

\* ingest.rs:231-237 in the run that created the view: its CREATE UNIQUE
\* INDEX is executed between two round trips of this run.  The view is that
\* of another run unless this run is between its own two statements
OtherRunCreatesIndex ==
    /\ g_pc \notin { "idle", "create_index", "done", "failed" }
    /\ g_schema.matview
    /\ ~g_schema.index
    /\ g_schema' = [ g_schema EXCEPT !.index = TRUE ]
    /\ UNCHANGED <<databases, g_pc, g_build, g_cli, g_export, g_todo, g_id, g_hist, uvars,
                   ivars>>
    /\ GUnchanged

\* ingest.rs:195-228: CREATE MATERIALIZED VIEW public.workout_distance_m
\* ...?, which fails when the view exists by now
IngestCreateMatview ==
    /\ g_pc = "create_view"
    /\ \/ /\ ~g_schema.matview
          /\ g_schema' = [ g_schema EXCEPT !.matview = TRUE ]
          /\ g_pc' = "create_index"
       \/ /\ g_pc' = "failed"
          /\ UNCHANGED g_schema
    /\ UNCHANGED <<databases, g_build, g_cli, g_export, g_todo, g_id, g_hist, uvars, ivars>>
    /\ GUnchanged

\* ingest.rs:231-239: CREATE UNIQUE INDEX ...?, then Ok(())
IngestCreateIndex ==
    /\ g_pc = "create_index"
    /\ \/ /\ ~g_schema.index
          /\ g_schema' = [ g_schema EXCEPT !.index = TRUE ]
          /\ g_hist' = [ g_hist EXCEPT !.ensured = TRUE ]
          /\ g_pc' = "ensured"
       \/ /\ g_pc' = "failed"
          /\ UNCHANGED <<g_schema, g_hist>>
    /\ UNCHANGED <<databases, g_build, g_cli, g_export, g_todo, g_id, uvars, ivars>>
    /\ GUnchanged

raw_details_read(summaries) ==
    Cardinality({ i \in DOMAIN summaries : summaries[i].raw_details # None })

\* read_base_activity_summary(export_dir, store_raw_details)?
IngestReadSummaries ==
    /\ g_pc = "ensured"
    /\ LET summaries == read_base_activity_summary(export_db(g_export),
                            ingest_flags(g_build, g_cli).store_raw_details)
       IN  IF summaries.tag = "Ok"
           THEN /\ g_todo' = summaries.value
                /\ g_hist' = [ g_hist EXCEPT !.raw_read = raw_details_read(summaries.value) ]
                /\ g_pc' = "loop"
           ELSE /\ g_pc' = "failed"
                /\ UNCHANGED <<g_todo, g_hist>>
    /\ UNCHANGED <<databases, g_build, g_cli, g_export, g_id, g_schema, uvars, ivars>>
    /\ GUnchanged

\* let workout_id = upsert_workout(&mut pg, &s)?
IngestUpsert ==
    /\ g_pc = "loop"
    /\ g_todo # <<>>
    /\ \/ /\ g_schema.tables
          /\ u_seq' = u_seq + 1
          /\ \E dt \in { 0, 1 } : u_now' = u_now + dt
          /\ u_rows' = upsert_workout(u_rows, Head(g_todo), u_seq', u_now').rows
          /\ g_id' = upsert_workout(u_rows, Head(g_todo), u_seq', u_now').id
          /\ g_hist' = [ g_hist EXCEPT !.upserts = @ + 1 ]
          /\ g_pc' = "upserted"
          /\ UNCHANGED u_last
       \/ /\ g_pc' = "failed"
          /\ UNCHANGED <<g_id, g_hist, uvars>>
    /\ UNCHANGED <<databases, g_build, g_cli, g_export, g_todo, g_schema, ivars>>
    /\ GUnchanged

\* the body is skipped when with_points is false, and left by continue when
\* the reference is absent, has no file name, or names a missing file
IngestSkipPoints ==
    /\ g_pc = "upserted"
    /\ ~ingest_flags(g_build, g_cli).with_points \/ gpx_path_of(Head(g_todo)) = None
    /\ g_todo' = Tail(g_todo)
    /\ g_pc' = "loop"
    /\ UNCHANGED <<databases, g_build, g_cli, g_export, g_id, g_schema, g_hist, uvars, ivars>>
    /\ GUnchanged

\* parse_gpx_points(&gpx_path)?, continue on no points, else the call of
\* import_points_for_workout
IngestParsePoints ==
    /\ g_pc = "upserted"
    /\ ingest_flags(g_build, g_cli).with_points
    /\ gpx_path_of(Head(g_todo)) # None
    /\ g_hist' = [ g_hist EXCEPT !.parsed = @ + 1 ]
    /\ LET pts == parse_gpx_points(ExportFiles[gpx_path_of(Head(g_todo))[1][2]])
       IN  IF pts.tag # "Ok"
           THEN /\ g_pc' = "failed"
                /\ UNCHANGED <<g_todo, ivars>>
           ELSE IF pts.value = <<>>
           THEN /\ g_todo' = Tail(g_todo)
                /\ g_pc' = "loop"
                /\ UNCHANGED ivars
           ELSE /\ import_called(g_id, pts.value)
                /\ g_pc' = "importing"
                /\ UNCHANGED g_todo
    /\ UNCHANGED <<databases, g_build, g_cli, g_export, g_id, g_schema, uvars>>
    /\ GUnchanged

\* import_points_for_workout(&mut pg, workout_id, &pts)? has returned
IngestImportReturned ==
    /\ g_pc = "importing"
    /\ i_pc = "returned"
    /\ IF i_result = "Ok"
       THEN /\ g_todo' = Tail(g_todo)
            /\ g_pc' = "loop"
       ELSE /\ g_pc' = "failed"
            /\ UNCHANGED g_todo
    /\ UNCHANGED <<databases, g_build, g_cli, g_export, g_id, g_schema, g_hist, uvars, ivars>>
    /\ GUnchanged

\* faulty variant of IngestFinish: the view is refreshed and the run ends
\* while summaries are left
IngestFinish_before_the_end ==
    /\ g_pc = "loop"
    /\ IF g_build = "ingest.rs"
       THEN \/ /\ g_schema.matview /\ g_schema.index
               /\ g_hist' = [ g_hist EXCEPT !.refreshes = @ + 1 ]
               /\ g_pc' = "done"
            \/ /\ g_pc' = "failed"
               /\ UNCHANGED g_hist
       ELSE /\ g_pc' = "done"
            /\ UNCHANGED g_hist
    /\ UNCHANGED <<databases, g_build, g_cli, g_export, g_todo, g_id, g_schema, uvars, ivars>>
    /\ GUnchanged

\* after the loop: refresh_workout_distance_matview(&mut pg)? in ingest.rs,
\* REFRESH MATERIALIZED VIEW CONCURRENTLY, which needs the view and a unique
\* index on it; nothing in main.rs; then Ok(())
IngestFinish ==
    /\ g_pc = "loop"
    /\ g_todo = <<>>
    /\ IF g_build = "ingest.rs"
       THEN \/ /\ g_schema.matview /\ g_schema.index
               /\ g_hist' = [ g_hist EXCEPT !.refreshes = @ + 1 ]
               /\ g_pc' = "done"
            \/ /\ g_pc' = "failed"
               /\ UNCHANGED g_hist
       ELSE /\ g_pc' = "done"
            /\ UNCHANGED g_hist
    /\ UNCHANGED <<databases, g_build, g_cli, g_export, g_todo, g_id, g_schema, uvars, ivars>>
    /\ GUnchanged

IngestNext ==
    \/ IngestConnect
    \/ IngestCreateStep
    \/ OtherClientCreates
    \/ IngestConnected
    \/ IngestEnsureSchema
    \/ IngestCheckMatview
    \/ OtherRunCreatesMatview
    \/ OtherRunCreatesIndex
    \/ IngestCreateMatview
    \/ IngestCreateIndex
    \/ IngestReadSummaries
    \/ IngestUpsert
    \/ IngestSkipPoints
    \/ IngestParsePoints
    \/ ImportSteps
    \/ IngestImportReturned
    \/ IngestFinish

SpecIngest == IngestInit /\ [][IngestNext]_vars

Init == MergeInit

Next == MergeNext

Spec == Init /\ [][Next]_vars

(***************************************************************************)
(* Vocabulary of the properties.                                           *)
(***************************************************************************)
Range(s) == { s[i] : i \in DOMAIN s }

\* floor(start_unix_seconds / 60), the bucket key as the specification defines it
floor_key(w) == timestamp(w.start) \div 60

\* the whole minutes of a start counted from the epoch, fractions dropped
\* toward the epoch: 0 for every start from -59 to 59
minute_toward_epoch(w) ==
    IF timestamp(w.start) >= 0 THEN timestamp(w.start) \div 60
    ELSE 0 - ((0 - timestamp(w.start)) \div 60)

same_bucket(a, b) == minute_toward_epoch(a) = minute_toward_epoch(b)

\* the positions of the returned workouts of the bucket of w
returned_for(w) == { r \in DOMAIN merged : same_bucket(merged[r], w) }

\* the positions of the input records of the bucket of w
bucket_of(w) == { i \in DOMAIN workouts : same_bucket(workouts[i], w) }

(***************************************************************************)
(* C1.  merge_by_start_minute returns exactly one workout per distinct     *)
(* floor(start / 60) of the input, also for starts before the epoch: two   *)
(* input workouts end in the same returned record exactly when their floor *)
(* keys are equal.                                                         *)
(***************************************************************************)
C1_OnePerFloorBucket ==
    m_pc = "merged" =>
        /\ Len(merged) = Cardinality({ floor_key(w) : w \in Range(workouts) })
        /\ \A k \in { floor_key(w) : w \in Range(workouts) } :
             Cardinality({ r \in DOMAIN merged : floor_key(merged[r]) = k }) = 1

(***************************************************************************)
(* C2.  In every bucket that holds an input workout with a known duration, *)
(* the one workout returned for the bucket has a known duration.           *)
(***************************************************************************)
C2_KnownDurationWins ==
    m_pc = "merged" =>
        \A i \in DOMAIN workouts :
            is_some(workouts[i].duration) =>
                /\ Cardinality(returned_for(workouts[i])) = 1
                /\ \A r \in returned_for(workouts[i]) : is_some(merged[r].duration)

C2_Witness ==
    /\ m_pc = "merged"
    /\ Len(workouts) = 3
    /\ same_bucket(workouts[1], workouts[2])
    /\ same_bucket(workouts[2], workouts[3])
    /\ earlier(workouts[2].start, workouts[3].start)
    /\ workouts[2].start = workouts[1].start
    /\ ~is_some(workouts[3].duration)
    /\ starts_with_db(workouts[3].source)
    /\ is_some(workouts[2].duration)
    /\ ~starts_with_db(workouts[2].source)
    /\ ~is_some(workouts[1].duration)
    /\ merged = <<workouts[2]>>

(***************************************************************************)
(* C3.  In every bucket, among the records of the winning duration class   *)
(* (those with a known duration if there is one, all of them otherwise),   *)
(* if one is database-derived then the workout returned for the bucket is  *)
(* database-derived.                                                       *)
(***************************************************************************)
winning_class(w) ==
    LET known == { i \in bucket_of(w) : is_some(workouts[i].duration) }
    IN  IF known # {} THEN known ELSE bucket_of(w)

C3_DatabaseWinsInClass ==
    m_pc = "merged" =>
        \A i \in DOMAIN workouts :
            (\E j \in winning_class(workouts[i]) : starts_with_db(workouts[j].source)) =>
                /\ Cardinality(returned_for(workouts[i])) = 1
                /\ \A r \in returned_for(workouts[i]) : starts_with_db(merged[r].source)

C3_Witness ==
    /\ m_pc = "merged"
    /\ Len(workouts) = 3
    /\ same_bucket(workouts[1], workouts[2])
    /\ same_bucket(workouts[2], workouts[3])
    /\ earlier(workouts[2].start, workouts[1].start)
    /\ workouts[2].start = workouts[3].start
    /\ is_some(workouts[1].duration) /\ ~starts_with_db(workouts[1].source)
    /\ ~is_some(workouts[2].duration) /\ starts_with_db(workouts[2].source)
    /\ is_some(workouts[3].duration) /\ starts_with_db(workouts[3].source)
    /\ merged = <<workouts[3]>>

(***************************************************************************)
(* C4.  As claimed: a permutation of the input list gives the same         *)
(* returned list.                                                          *)
(***************************************************************************)
C4_PermutationInvariant ==
    m_pc = "permuted" => merged2 = merged

(***************************************************************************)
(* C4, amended.  A permutation of the input gives a returned list with the *)
(* same starts, the same duration-knownness and the same source kinds; the *)
(* two lists are equal when no two different records of the input have     *)
(* equal start, equal duration-knownness and the same source kind, and     *)
(* they are equal when the permutation swaps a block of file-derived       *)
(* records with a block of database-derived records.  Among such tied      *)
(* records each call keeps the one that comes first in its input.          *)
(***************************************************************************)
same_class(a, b) ==
    /\ a.start = b.start
    /\ is_some(a.duration) = is_some(b.duration)
    /\ starts_with_db(a.source) = starts_with_db(b.source)

tie_free(ws) ==
    \A i, j \in DOMAIN ws : same_class(ws[i], ws[j]) => ws[i] = ws[j]

same_up_to_ties(xs, ys) ==
    /\ Len(xs) = Len(ys)
    /\ \A i \in DOMAIN xs : same_class(xs[i], ys[i])

all_db(ws) == \A i \in DOMAIN ws : starts_with_db(ws[i].source)

all_file(ws) == \A i \in DOMAIN ws : ~starts_with_db(ws[i].source)

blocks_swapped(ws, ws2) ==
    \E k \in 0..Len(ws) :
        LET front == SubSeq(ws, 1, k)
            back  == SubSeq(ws, k + 1, Len(ws))
        IN  /\ ws2 = back \o front
            /\ \/ all_file(front) /\ all_db(back)
               \/ all_db(front) /\ all_file(back)

first_of_ties_kept(ws, kept) ==
    \A r \in DOMAIN kept :
        \A i \in DOMAIN ws :
            (same_class(ws[i], kept[r]) /\ ws[i] # kept[r]) =>
                \E j \in 1..(i - 1) : ws[j] = kept[r]

C4_PermutationUpToTies ==
    m_pc = "permuted" =>
        /\ same_up_to_ties(merged2, merged)
        /\ tie_free(workouts) => merged2 = merged
        /\ blocks_swapped(workouts, workouts2) => merged2 = merged
        /\ first_of_ties_kept(workouts, merged)
        /\ first_of_ties_kept(workouts2, merged2)

C4_Witness ==
    /\ m_pc = "permuted"
    /\ Len(workouts) = 3
    /\ same_class(workouts[1], workouts[2])
    /\ workouts[1] # workouts[2]
    /\ starts_with_db(workouts[3].source)
    /\ workouts2 = <<workouts[3], workouts[2], workouts[1]>>
    /\ merged = <<workouts[1]>>
    /\ merged2 = <<workouts[2]>>

(***************************************************************************)
(* C5.  As claimed: two workouts with known durations, 10 seconds apart,   *)
(* one database-derived and one file-derived, always merge into exactly    *)
(* one record, the database-derived one.                                   *)
(***************************************************************************)
db_record(ws) == CHOOSE w \in Range(ws) : starts_with_db(w.source)

C5_PairKeepsDbOnly ==
    m_pc = "merged" => merged = << db_record(workouts) >>

(***************************************************************************)
(* C5, amended.  When both starts lie in the same bucket (the same whole   *)
(* minute counted from the epoch, fractions dropped toward the epoch) the  *)
(* merge returns exactly one record, the database-derived one; when they   *)
(* lie on two sides of a bucket boundary it returns both records, the      *)
(* later start first.                                                      *)
(***************************************************************************)
C5_PairWithinBucket ==
    m_pc = "merged" =>
        IF same_bucket(workouts[1], workouts[2])
        THEN merged = << db_record(workouts) >>
        ELSE /\ Len(merged) = 2
             /\ Range(merged) = Range(workouts)
             /\ earlier(merged[2].start, merged[1].start)

C5_Witness ==
    /\ m_pc = "merged"
    /\ workouts[1].start = AtSecond(55)
    /\ workouts[2].start = AtSecond(45)
    /\ starts_with_db(workouts[2].source)
    /\ merged = << workouts[2] >>

(***************************************************************************)
(* C6.  Merging the list concatenated with itself returns what merging the *)
(* list once returns, and merging the returned list returns it unchanged.  *)
(***************************************************************************)
C6_Idempotent ==
    /\ m_pc = "duplicated" => (workouts2 = workouts \o workouts /\ merged2 = merged)
    /\ m_pc = "remerged" => (workouts2 = merged /\ merged2 = merged)

C6_Witness ==
    /\ m_pc = "duplicated"
    /\ Len(workouts) = 3
    /\ Len(merged) = 2
    /\ same_bucket(workouts[1], workouts[2])
    /\ workouts[1] # workouts[2]
    /\ merged2 = merged

(***************************************************************************)
(* C7.  The returned list is sorted by start, strictly descending,         *)
(* whatever the iteration order of the bucket map.                         *)
(***************************************************************************)
C7_SortedDescending ==
    m_pc = "merged" =>
        \A i \in 1..(Len(merged) - 1) : earlier(merged[i + 1].start, merged[i].start)

C7_Witness ==
    /\ m_pc = "merged"
    /\ Len(merged) = 3
    /\ earlier(workouts[1].start, workouts[2].start)
    /\ earlier(workouts[2].start, workouts[3].start)

(***************************************************************************)
(* Properties of the track-file scanners.                                  *)
(***************************************************************************)
\* the time from a to b of two instants outside leap seconds
time_between(a, b) == Duration(b.secs - a.secs, b.nanos - a.nanos)

set_min(S) == CHOOSE x \in S : \A y \in S : not_later(x, y)

set_max(S) == CHOOSE x \in S : \A y \in S : not_later(y, x)

\* what the claim expects for a file whose parsed instants are S: max - min,
\* as instants are subtracted
expected_duration(S) ==
    IF S # {} /\ earlier(set_min(S), set_max(S))
    THEN Some(signed_duration_since(set_max(S), set_min(S)))
    ELSE None

\* the instant lies inside no leap second
whole_second(t) == frac_of(t) < NanosPerSecond

\* the texts that write an instant: in UTC with Z, and at an offset
texts_writing(t) ==
    { TimestampText(written_zulu(t)), TimestampText(written_zulu_long(t)) }
    \cup { TimestampText(written_rfc3339(t, offset)) : offset \in Offsets }

\* the instants the texts of the harness write: 10 s, 10.0005 s and 20 s
\* after the epoch, the last at two offsets, 19.5 s after it, and around
\* two leap seconds
DurationInstants ==
    { AtSecond(10), InstantNanos(10, NanosPerMilli \div 2), AtSecond(20), InstantAt(19, 500),
      InstantAt(59, MillisPerSecond),
      AtSecond(60), InstantAt(SecondsPerDay - 1, MillisPerSecond + 500),
      AtSecond(SecondsPerDay) }

\* the instant a text of a time element was written for
written_for(text) == CHOOSE t \in DurationInstants : text \in texts_writing(t)

\* min_t and max_t are the least and the greatest instant parsed so far
min_max_track_times ==
    x_pc = "loop" =>
        /\ min_t = (IF times_parsed = {} THEN None ELSE Some(set_min(times_parsed)))
        /\ max_t = (IF times_parsed = {} THEN None ELSE Some(set_max(times_parsed)))

C9_IndicesCountFromZero ==
    \A i \in DOMAIN out : out[i].idx - out_base = i - 1

\* the step leaves a point element
exits_trkpt ==
    /\ x_pc = "loop"
    /\ x_pc' = "loop"
    /\ opened # <<>>
    /\ opened' = pop(opened)
    /\ top(opened).name = "trkpt"

\* the step pushes exactly one point
one_point_appended ==
    /\ Len(out') = Len(out) + 1
    /\ SubSeq(out', 1, Len(out)) = out

\* no point is pushed while the scanner stays in its loop at another event
no_point_elsewhere ==
    ~exits_trkpt /\ x_pc' = "loop" => out' = out

\* C10 as stated: leaving a point element pushes exactly one point if and
\* only if the element's own lat and lon attributes parsed and a date-time
\* was captured inside it, and no other event pushes a point.
C10_EmitIffOwnFieldsParsed ==
    [][ /\ exits_trkpt =>
             IF top(opened).coords_ok /\ top(opened).time_ok
             THEN one_point_appended
             ELSE out' = out
        /\ no_point_elsewhere ]_vars

\* C10 amended: leaving a point element pushes exactly one point if and only
\* if the scratch latitude, longitude and time are all set, whatever the
\* scratch elevation is, and the point carries that elevation or none; for a
\* point element in which no other point element was opened this is the case
\* if and only if its own lat and lon attributes parsed and a date-time was
\* captured inside it; no other event pushes a point.
C10_EmitIffScratchSet ==
    [][ /\ exits_trkpt =>
             /\ IF is_some(st.cur_lat) /\ is_some(st.cur_lon) /\ is_some(st.cur_time)
                THEN one_point_appended /\ out'[Len(out')].ele = st.cur_ele
                ELSE out' = out
             /\ ~top(opened).nested =>
                  IF top(opened).coords_ok /\ top(opened).time_ok
                  THEN one_point_appended
                  ELSE out' = out
        /\ no_point_elsewhere ]_vars

\* a point pushed with no elevation, from a point element that held no other
\* point element and is now closed
C10_Witness ==
    /\ x_pc = "loop"
    /\ opened = <<>>
    /\ ~st.in_trkpt
    /\ Len(out) = 1
    /\ out[1].ele = None
    /\ st.cur_ele = None

(***************************************************************************)
(* Properties of the directory collector.                                  *)
(***************************************************************************)
\* the step is an iteration of the collector's loop
visits == Len(visited') = Len(visited) + 1

\* the entry that iteration is about
last_visited == visited'[Len(visited')]

\* a track file of zero bytes whose content can be read
zero_byte(file) == file.size = 0 /\ file.readable

\* the entry of a track file of zero bytes: the metadata tell that length
\* and the file is read with that length
zero_byte_entry(e) == zero_byte(e.file) /\ e.metadata = Some(0)

\* C11: a zero-byte track file raises no error in either mode:
\* parse_gpx_points returns Ok with no point, duration_from_gpx returns
\* Ok(None); the collector counts the file as empty, goes on, and pushes a
\* Workout with no duration for it when its name yields a start.
C11_ZeroByteFileIsNoError ==
    /\ [](c_pc = "points_read" /\ zero_byte(r_file[1]) => r_result = Ok(<<>>))
    /\ [][ visits /\ is_gpx_file(last_visited) /\ zero_byte_entry(last_visited) =>
             /\ duration_from_gpx(last_visited.file) = Ok(None)
             /\ cnt'.empty = cnt.empty + 1
             /\ c_pc' = "walk"
             /\ reads_file(last_visited) =>
                  c_out' = Append(c_out,
                                  [ start |-> parse_start_from_filename(last_visited.name.chars)[1],
                                    duration |-> None,
                                    source |-> << "gpx:", last_visited.name.text >> ]) ]_vars

\* the collector has pushed a Workout with no duration for a zero-byte file
\* and goes on
C11_Witness ==
    /\ c_pc = "walk"
    /\ Len(visited) = 1
    /\ is_gpx_file(visited[1])
    /\ zero_byte_entry(visited[1])
    /\ cnt.empty = 1
    /\ Len(c_out) = 1
    /\ c_out[1].duration = None

\* C12: no failure on a single track file propagates out of the collector:
\* whatever files it visits, collect_from_gpx returns Ok.  A stamped .gpx
\* file whose content cannot be read makes it return Err (gpx.rs:64-65, 94).
C12_FileFailureNeverPropagates ==
    c_pc = "returned" => c_result.tag = "Ok"

\* a markup error in the file is among the events the reader yields
has_markup_error(file) == \E i \in DOMAIN file.events : file.events[i].ev = "Err"

\* C13: a markup error at any position makes duration_from_gpx return
\* Ok(None), also after instants with max > min were parsed; the collector
\* then pushes the file's Workout with no duration and goes on.
C13_MarkupErrorIsUnknownDuration ==
    [][ visits /\ reads_file(last_visited) /\ last_visited.file.readable
        /\ last_visited.file.size > 0 /\ has_markup_error(last_visited.file) =>
             /\ duration_from_gpx(last_visited.file) = Ok(None)
             /\ c_pc' = "walk"
             /\ c_result' = Pending
             /\ c_out' = Append(c_out,
                                [ start |-> parse_start_from_filename(last_visited.name.chars)[1],
                                  duration |-> None,
                                  source |-> << "gpx:", last_visited.name.text >> ])
             /\ cnt'.no_duration = cnt.no_duration + 1 ]_vars

\* a file in which two instants 10 s apart precede the markup error was
\* visited, then a second file
C13_Witness ==
    /\ c_pc = "walk"
    /\ Len(visited) = 2
    /\ reads_file(visited[1])
    /\ visited[1].file.events = TwoTimesFile.events \o << ErrEv >>
    /\ Len(c_out) = 2
    /\ c_out[1].duration = None
    /\ c_out[2].duration = Some(Seconds(10))

(***************************************************************************)
(* Properties of print mode and of the database pipeline.                  *)
(***************************************************************************)
\* the Workouts the track files yield and those the database yields
file_workouts == IF gpx_collected = Err THEN <<>> ELSE gpx_collected.value

database_workouts == IF db_collected = Err THEN <<>> ELSE db_collected.value

\* every track file can be read and the database file exists and is an
\* SQLite database
readable_export ==
    /\ gpx_collected # Err
    /\ export.db.exists
    /\ export.db.is_sqlite

\* C14: on a readable export with an openable database, the run ends with
\* the error 'No workouts found' exactly when the file-derived and the
\* database-derived Workouts together are none, and whenever the track files
\* yield a Workout the run prints the list, also when the database holds no
\* workout table.
C14_NoWorkoutsOnlyWhenEmpty ==
    run # NotRun /\ readable_export =>
        /\ run = Failed("No workouts found") <=> file_workouts \o database_workouts = <<>>
        /\ file_workouts # <<>> => run.tag = "Ok" /\ run.printed # <<>>

\* the visited track files whose name yields a start, and those whose name
\* yields none
stamped_files == { i \in DOMAIN visited : reads_file(visited[i]) }

unstamped_files == { i \in DOMAIN visited : is_gpx_file(visited[i]) /\ ~reads_file(visited[i]) }

\* C15: when collect_from_gpx returns its list, the list holds exactly one
\* Workout per visited regular .gpx file whose name yields a start, tagged
\* "gpx:<file name>" and starting at that start, in descending order of start;
\* every .gpx file whose name yields no start is counted in start_fail and
\* contributes no Workout.
C15_OneWorkoutPerStampedFile ==
    c_pc = "returned" /\ c_result.tag = "Ok" =>
        LET list == c_result.value
        IN  /\ Len(list) = Cardinality(stamped_files)
            /\ \A i \in stamped_files :
                 Cardinality({ k \in DOMAIN list :
                                 /\ list[k].source = << "gpx:", visited[i].name.text >>
                                 /\ list[k].start = parse_start_from_filename(visited[i].name.chars)[1] })
                 = Cardinality({ j \in stamped_files : visited[j].name = visited[i].name })
            /\ \A k \in 1..(Len(list) - 1) : not_later(list[k + 1].start, list[k].start)
            /\ cnt.start_fail = Cardinality(unstamped_files)

(***************************************************************************)
(* Properties of the file-name harness.                                    *)
(***************************************************************************)
\* a match of the pattern begins in the name before the written stamp
earlier_match == \E i \in 1..(f_at - 1) : matches_at(f_name, i)

\* what the name holds before the written stamp
f_before == SubSeq(f_name, 1, f_at - 1)

\* the date-time of the match that begins first when a text with a match,
\* or with the head of one, stands before the written stamp:
\* 1970-01-01T02_00_00+01_00 is 01:00:00 UTC, 1970-01-01T02_00_00+01_ and the
\* century 19 of the written stamp is 02:00:00 at +01:19, and the two other
\* matches are no date-time
earlier_instant(before) ==
    IF before \in { OtherStamp, << "a" >> \o OtherStamp \o << "-" >> } THEN Some(OtherInstant)
    ELSE IF before = HeadOfStamp THEN Some(AtSecond(7200 - (3600 + 19 * 60)))
    ELSE None

\* C16 as stated: an instant written into a name as YYYY-MM-DDThh_mm_ss and a
\* signed hh_mm offset is returned by parse_start_from_filename as that same
\* instant in UTC, whatever surrounds it in the name.
C16_RoundTripAnySurrounding ==
    f_pc = "parsed" => f_result = Some(f_instant)

\* C16, amended: the written instant is returned, in UTC, whenever no match of
\* the pattern begins earlier in the name than the written stamp; text before
\* it and anything after it, another match included, change nothing.  When
\* a match begins earlier, the result is the instant of the earliest match,
\* or None when that match is no date-time.
C16_RoundTripWhenLeftmost ==
    f_pc = "parsed" =>
        IF earlier_match THEN f_result = earlier_instant(f_before)
        ELSE f_result = Some(f_instant)

\* run_1970-01-01T18_29_60-05_30 and then 1970-01-01T02_00_00+01_00: an
\* instant inside a leap second, written at an offset after text and before
\* another match, has been parsed back to the instant 23:59:60 UTC
C16_Witness ==
    /\ f_pc = "parsed"
    /\ f_instant = InstantAt(SecondsPerDay - 1, MillisPerSecond)
    /\ f_name = << "r", "u", "n", "_" >> \o written_stamp(f_instant, Offset("-", 5, 30))
                 \o OtherStamp
    /\ f_at = 5
    /\ ~earlier_match
    /\ f_result = Some(f_instant)

(***************************************************************************)
(* Properties of the Workouts the two pipelines hand to the merge.         *)
(***************************************************************************)
\* the run has collected from both sources and merged
collected == run # NotRun /\ gpx_collected # Err /\ db_collected # Err

\* the instants the texts of a track file were written for
track_instants(file) ==
    { written_for(file.events[i].text) :
        i \in { j \in DOMAIN file.events : file.events[j].text.kind = "timestamp" } }

\* the rows of the workout table of the export
summary_rows ==
    IF table_exists(export.db, "BASE_ACTIVITY_SUMMARY")
    THEN table_named(export.db, "BASE_ACTIVITY_SUMMARY").rows
    ELSE <<>>

\* end - start of a source when end is later than start: of two instants,
\* and of two numbers of milliseconds
end_minus_start(start, end) ==
    IF earlier(start, end) THEN Some(signed_duration_since(end, start)) ELSE None

millis_end_minus_start(start, end) == IF end > start THEN Some(Millis(end - start)) ELSE None

\* the Workout comes from this track file: its duration is max - min of the
\* instants of the file, and none for a file with a markup error
from_track_file(w, e) ==
    /\ w.source = << "gpx:", e.name.text >>
    /\ w.duration = (IF track_instants(e.file) = {} \/ has_markup_error(e.file) THEN None
                     ELSE end_minus_start(set_min(track_instants(e.file)),
                                          set_max(track_instants(e.file))))

\* the Workout comes from this row
from_row(w, row) ==
    /\ w.source[1] = "db:"
    /\ whole_second(w.start)
    /\ frac_of(w.start) % NanosPerMilli = 0
    /\ timestamp_millis(w.start) = row.START_TIME.ms
    /\ w.duration = millis_end_minus_start(row.START_TIME.ms, row.END_TIME.ms)

\* C17: every Workout the two pipelines produce has either no duration or a
\* duration that is not negative; a Workout of a track file has the duration
\* max - min of the instants of that file, a Workout of a database row has
\* END_TIME - START_TIME of that row, and both have no duration when that
\* end is not later than that start.  The track file with the instants
\* 1970-01-01T23:59:60.500Z and 1970-01-02T00:00:00Z has max later than min
\* and max - min = -500 ms (gpx.rs:153-156).
C17_DurationIsEndMinusStart ==
    collected =>
        /\ workouts = file_workouts \o database_workouts
        /\ \A i \in DOMAIN workouts :
             workouts[i].duration # None => ~less_than(workouts[i].duration[1], Zero)
        /\ \A i \in DOMAIN file_workouts :
             \E k \in DOMAIN export.files.entries :
                 from_track_file(file_workouts[i], export.files.entries[k])
        /\ \A i \in DOMAIN database_workouts :
             \E k \in DOMAIN summary_rows : from_row(database_workouts[i], summary_rows[k])
        /\ \A k \in DOMAIN export.files.entries :
             LET e == export.files.entries[k]
             IN  e.name \in StampedNames /\ ~cli.no_gpx =>
                     \E i \in DOMAIN file_workouts : from_track_file(file_workouts[i], e)
        /\ \A k \in DOMAIN summary_rows :
             LET row == summary_rows[k]
             IN  row.START_TIME.in_range /\ row.END_TIME.in_range /\ ~cli.no_db =>
                     \E i \in DOMAIN database_workouts : from_row(database_workouts[i], row)

(***************************************************************************)
(* Properties of the extraction from the database.                         *)
(***************************************************************************)
\* the run has read a database that holds the workout table with its columns
summary_table_read ==
    /\ run # NotRun
    /\ ~cli.no_db
    /\ gpx_collected # Err
    /\ export.db.exists
    /\ export.db.is_sqlite
    /\ table_exists(export.db, "BASE_ACTIVITY_SUMMARY")
    /\ columns_resolve(table_named(export.db, "BASE_ACTIVITY_SUMMARY"))

\* a row with a start after the epoch and a duration of 30 seconds to 24 hours
plausible_row(row) ==
    /\ row.START_TIME.type = "integer" /\ row.START_TIME.in_range
    /\ row.END_TIME.type = "integer" /\ row.END_TIME.in_range
    /\ row.START_TIME.ms > 0
    /\ row.END_TIME.ms - row.START_TIME.ms >= 30 * MillisPerSecond
    /\ row.END_TIME.ms - row.START_TIME.ms <= SecondsPerDay * MillisPerSecond

\* C18: extraction drops the rows whose start is not positive, whose start is
\* missing or unparseable and whose duration is outside 30 seconds to 24
\* hours, keeps the rows with a positive start and a duration inside that
\* window, and no such row makes extraction fail.
C18_ImplausibleRowsDropped ==
    summary_table_read =>
        /\ db_collected # Err
        /\ \A i \in DOMAIN database_workouts :
             /\ earlier(AtSecond(0), database_workouts[i].start)
             /\ database_workouts[i].duration # None =>
                    /\ ~less_than(database_workouts[i].duration[1], Seconds(30))
                    /\ ~less_than(Seconds(SecondsPerDay), database_workouts[i].duration[1])
        /\ \A k \in DOMAIN summary_rows :
             plausible_row(summary_rows[k]) =>
                 \E i \in DOMAIN database_workouts : from_row(database_workouts[i], summary_rows[k])

\* the run has read a database whose catalog holds the tables sleep_samples
\* and WorkoutSession
session_catalog_read ==
    /\ run # NotRun
    /\ ~cli.no_db
    /\ gpx_collected # Err
    /\ export.db.exists
    /\ export.db.is_sqlite
    /\ table_exists(export.db, "sleep_samples")
    /\ table_exists(export.db, "WorkoutSession")

\* C19: the workout table is chosen by its name and its columns, no name being
\* fixed: from a catalog with sleep_samples {start, stop} and WorkoutSession
\* {startTime, endTime}, the database Workouts are those of the rows of
\* WorkoutSession.
C19_SelectsWorkoutSession ==
    session_catalog_read =>
        LET rows == table_named(export.db, "WorkoutSession").rows
        IN  /\ db_collected # Err
            /\ Len(database_workouts) = Len(rows)
            /\ \A k \in DOMAIN rows :
                 \E i \in DOMAIN database_workouts : from_row(database_workouts[i], rows[k])

(***************************************************************************)
(* Properties of the store.                                                *)
(***************************************************************************)
\* a row without its update timestamp
content(r) == [ c \in DOMAIN r \ { "updated_at" } |-> r[c] ]

row_contents(rows) == { content(r) : r \in rows }

one_row_per_key ==
    \A r1, r2 \in u_rows :
        r1.device_id = r2.device_id /\ r1.start_time = r2.start_time => r1 = r2

\* the step upserts the summary the previous call upserted
upserted_again ==
    /\ u_last # None
    /\ u_seq' # u_seq
    /\ u_last'[1].summary = u_last[1].summary

\* C20: whatever upserts have run, the table workouts holds at most one row
\* per (device_id, start_time) and the id returned is that of the row of the
\* summary; upserting a summary a second time returns the id of the first
\* time and leaves every row as it was, but for the update timestamp.
C20_UpsertIdempotentByKey ==
    /\ [](one_row_per_key)
    /\ [](u_last # None =>
            \E r \in u_rows :
                /\ r.id = u_last[1].id
                /\ r.device_id = u_last[1].summary.device_id
                /\ r.start_time = u_last[1].summary.start
                /\ r.end_time = u_last[1].summary.end
                /\ r.activity_kind = u_last[1].summary.activity_kind)
    /\ [][upserted_again =>
            /\ u_last'[1].id = u_last[1].id
            /\ row_contents(u_rows') = row_contents(u_rows)]_vars

\* a summary has been upserted a second time, at a later time of the clock,
\* into a table that holds another row as well
C20_Witness ==
    /\ u_last # None
    /\ u_last[1].again
    /\ Cardinality(u_rows) = 2
    /\ \E r \in u_rows : r.id = u_last[1].id /\ r.updated_at > r.created_at

(***************************************************************************)
(* Properties of the scanner state of parse_gpx_points.                    *)
(***************************************************************************)
\* a capture flag is set only while the scanner is inside a point element
flags_only_in_trkpt == st.in_time \/ st.in_ele => st.in_trkpt

\* C23: while parse_gpx_points reads a well-nested stream, the scanner is in
\* exactly one of the states outside-point, inside-point, inside-point-time,
\* inside-point-elevation: in_time and in_ele are never both set, and either
\* is set only while in_trkpt is.
C23_OneOfFourStates ==
    x_pc = "loop" => ~(st.in_time /\ st.in_ele) /\ flags_only_in_trkpt

(***************************************************************************)
(* Properties of a track file read in both modes.                          *)
(***************************************************************************)
valid_time(time) == time # None /\ time[1].kind = "timestamp"

own_ele(ele) == IF ele = None THEN None ELSE Some(ele[1].value[1])

\* the point of an element from its own attributes, time and ele
own_point(idx, time, ele) ==
    [ idx |-> idx, t |-> written_for(time[1]), lat |-> 1, lon |-> 1,
      ele |-> own_ele(ele) ]

\* the points of the elements of a file, each from what its own element
\* holds: a point element gives a point when its coordinates and its time
\* are valid; an inner point element comes before the element that holds it
RECURSIVE own_points(_, _)
own_points(items, o) ==
    IF items = <<>> THEN o
    ELSE LET item == Head(items)
             inner == IF item.kind = "nested" /\ valid_time(item.in_time)
                      THEN Append(o, own_point(Len(o), item.in_time, None))
                      ELSE o
         IN  IF item.kind \in { "point", "nested" } /\ item.coords /\ valid_time(item.time)
             THEN own_points(Tail(items), Append(inner, own_point(Len(inner), item.time, item.ele)))
             ELSE own_points(Tail(items), inner)

no_nested_point == \A i \in DOMAIN k_items : k_items[i].kind # "nested"

\* what a point carries
carried(p) == << p.t, p.lat, p.lon, p.ele >>

\* each point of the list is matched by an own point of an element of the
\* file that carries the same values, no own point matching two of them
each_from_own_element(points, own) ==
    \A i \in DOMAIN points :
        Cardinality({ j \in DOMAIN points : carried(points[j]) = carried(points[i]) })
            <= Cardinality({ j \in DOMAIN own : carried(own[j]) = carried(points[i]) })

\* C24 as stated: every point pushed carries the coordinates, time and
\* elevation captured in its own point element: a point element without a
\* valid time of its own is not pushed with the time of another one, nor
\* with another one's elevation, and text outside point elements is not
\* captured.
C24_PointsCarryOwnValues ==
    k_points # Pending =>
        /\ k_points.tag = "Ok"
        /\ each_from_own_element(k_points.value, own_points(k_items, <<>>))

\* C24, amended: in a file where no point element is opened inside another
\* one, the points pushed are exactly the own points of its point elements
\* with valid coordinates and a valid time, in their order, so each carries
\* the values of its own element.
C24_OwnValuesWhenNotNested ==
    k_points # Pending /\ no_nested_point =>
        /\ k_points = Ok(own_points(k_items, <<>>))
        /\ each_from_own_element(k_points.value, own_points(k_items, <<>>))

\* a point with a time and an elevation was pushed, and the point element
\* after it, with no elevation of its own, was pushed with none
C24_Witness ==
    /\ k_points # Pending
    /\ Len(k_items) = 2
    /\ k_items[1].kind = "point" /\ k_items[2].kind = "point"
    /\ k_items[1].ele # None /\ k_items[2].ele = None
    /\ Len(k_points.value) = 2
    /\ k_points.value[1].ele = Some(5)
    /\ k_points.value[2].ele = None
    /\ k_points.value[2].t # k_points.value[1].t

\* the times of the points pushed in point mode
point_times == { k_points.value[i].t : i \in DOMAIN k_points.value }

\* both modes have read the file, every point element of the file has valid
\* coordinates and none is opened inside another one
both_modes_read ==
    /\ k_points # Pending
    /\ k_duration # Pending
    /\ no_nested_point
    /\ \A i \in DOMAIN k_items :
         k_items[i].kind \in { "point", "nested" } => k_items[i].coords

\* C29: when duration mode returns a known duration for a file whose point
\* elements all have valid coordinates, that duration is the latest minus the
\* earliest time of the points that point mode returns for the same file;
\* time elements outside point elements do not change it.
C29_ModesAgree ==
    both_modes_read /\ k_duration.tag = "Ok" /\ k_duration.value # None =>
        /\ k_points.tag = "Ok"
        /\ point_times # {}
        /\ k_duration.value = Some(time_between(set_min(point_times), set_max(point_times)))

(***************************************************************************)
(* Properties of the counters of the directory collector.                  *)
(***************************************************************************)
\* C28: when collect_from_gpx returns its list, seen = start_fail +
\* with_duration + no_duration, with_duration + no_duration is the number of
\* Workouts returned, with_duration is the number of those with a known
\* duration, and empty <= seen.
C28_CountersAddUp ==
    c_pc = "returned" /\ c_result.tag = "Ok" =>
        LET list == c_result.value
        IN  /\ cnt.seen = cnt.start_fail + cnt.with_duration + cnt.no_duration
            /\ cnt.with_duration + cnt.no_duration = Len(list)
            /\ cnt.with_duration
                 = Cardinality({ k \in DOMAIN list : list[k].duration # None })
            /\ cnt.empty <= cnt.seen

(***************************************************************************)
(* Properties of the point import.                                         *)
(***************************************************************************)
points_of(rows, workout_id) == { r \in rows : r.workout_id = workout_id }

import_succeeded == i_pc = "returned" /\ i_result = "Ok"

\* C21: after import_points_for_workout has returned Ok, the stored points of
\* the workout are exactly the rows of the given list, one per point and per
\* idx, the points of the other workouts are those stored before the call,
\* and when the call before it returned Ok for the same workout and list, the
\* table is as that call left it.
C21_ImportReplacesPoints ==
    import_succeeded =>
        /\ points_of(w_points, i_call.workout_id)
             = points_rows(i_call.workout_id, i_call.points)
        /\ Cardinality(points_of(w_points, i_call.workout_id)) = Len(i_call.points)
        /\ \A r1, r2 \in points_of(w_points, i_call.workout_id) : r1.idx = r2.idx => r1 = r2
        /\ \A w \in WorkoutIds \ { i_call.workout_id } :
             points_of(w_points, w) = points_of(i_before, w)
        /\ i_prev # None /\ i_prev[1].call = i_call => w_points = i_prev[1].after

\* a list of two points was imported a second time for a workout, while
\* another workout has points
C21_Witness ==
    /\ import_succeeded
    /\ i_prev # None
    /\ i_prev[1].call = i_call
    /\ Len(i_call.points) = 2
    /\ Cardinality(points_of(i_before, i_call.workout_id)) = 2
    /\ \E w \in WorkoutIds \ { i_call.workout_id } : points_of(w_points, w) # {}

import_failed == i_pc = "returned" /\ i_result = "Err"

\* C27: when import_points_for_workout fails at any step, the stored points
\* are those stored before the call, and until it returns Ok no other
\* client sees a row deleted or a row inserted.
C27_FailedImportChangesNothing ==
    /\ import_failed => w_points = i_before /\ i_tx = None
    /\ i_pc \in { "called", "begun", "deleted", "inserting" } => w_points = i_before

\* an import failed after the DELETE and one INSERT, for a workout that had
\* points stored
C27_Witness ==
    /\ import_failed
    /\ i_k >= 1
    /\ points_of(i_before, i_call.workout_id) # {}
    /\ points_of(w_points, i_call.workout_id) # points_rows(i_call.workout_id, i_call.points)

(***************************************************************************)
(* Properties of the ingest run.                                           *)
(***************************************************************************)
ingest_rs == g_build = "ingest.rs"

refreshed == g_hist'.refreshes # g_hist.refreshes

\* C26: in a run of the ingest of ingest.rs, no workout is upserted before
\* the schema and the materialized view were ensured, points are imported
\* only for the workout the loop has just upserted, and the materialized
\* view is refreshed at most once, by a step taken when every summary was
\* processed, no step has failed and no points transaction is open.
C26_RunOrdering ==
    /\ [](ingest_rs =>
            /\ g_hist.upserts > 0 => g_hist.ensured /\ g_schema.tables /\ g_schema.matview
            /\ i_pc \in { "called", "begun", "deleted", "inserting" } =>
                 /\ g_pc = "importing"
                 /\ g_hist.upserts > 0
                 /\ i_call.workout_id = g_id
                 /\ \E r \in conflicting(u_rows, Head(g_todo)) : r.id = g_id
            /\ g_hist.refreshes <= 1
            /\ g_hist.refreshes = 1 => g_pc = "done" /\ g_todo = <<>> /\ i_tx = None)
    /\ [][ingest_rs /\ refreshed =>
            /\ g_pc = "loop" /\ g_todo = <<>>
            /\ g_hist.upserts = Len(g_export.rows)
            /\ i_tx = None /\ i_pc \in { "idle", "returned" }
            /\ i_pc = "returned" => i_result = "Ok"]_vars

\* a run has upserted two workouts, imported points and refreshed the view
C26_Witness ==
    /\ ingest_rs
    /\ g_pc = "done"
    /\ g_hist.refreshes = 1
    /\ g_hist.upserts = 2
    /\ i_n >= 1
    /\ i_result = "Ok"

\* the workouts of the export: the rows of the table workouts with the key
\* of one of its summaries
workouts_of_export ==
    { r \in u_rows :
        \E i \in DOMAIN g_export.rows :
          /\ r.device_id = i32_try_from_or_max(g_export.rows[i].DEVICE_ID)
          /\ r.start_time = timestamp_millis_opt(g_export.rows[i].START_TIME)[1] }

\* the rows of the points parsed from the track file a workouts row references
points_referenced(r) ==
    IF gpx_path_of(r) = None THEN {}
    ELSE points_rows(r.id, parse_gpx_points(ExportFiles[gpx_path_of(r)[1][2]]).value)

\* C30: when a run of the ingest of ingest.rs has returned Ok, the points
\* stored for every workout of the export are the points parsed from the
\* track file its row references, and none when the reference is absent,
\* the file is missing or the file yields no points.
C30_PointsMatchTrackFiles ==
    ingest_rs /\ g_pc = "done" =>
        \A r \in workouts_of_export : points_of(w_points, r.id) = points_referenced(r)

\* C22: a run started with the with_points option unset parses no track
\* file in point mode, calls no point import and leaves the stored points
\* as they were, and a run started with store_raw_details unset reads no
\* raw-detail side file.
C22_PointsOnlyOnRequest ==
    /\ ~g_cli.with_points =>
         g_hist.parsed = 0 /\ i_n = 0 /\ w_points = g_hist.before
    /\ ~g_cli.store_raw_details => g_hist.raw_read = 0

(***************************************************************************)
(* Properties of connect_or_create_db.                                     *)
(***************************************************************************)
issues_create(c) == clients'[c].creates # clients[c].creates

\* C25: a client issues CREATE DATABASE only after its connection failed
\* with 3D000 and its existence check found no database; a client whose
\* CREATE got 42P04 goes on to reconnect; a client whose first connection
\* failed otherwise has issued no CREATE and has returned the error; and a
\* client that has returned, was given a name create_database accepts and
\* met no unrelated error is connected to the database, whatever the other
\* clients did.
C25_CreationToleratesRace ==
    /\ [][\A c \in Clients :
            issues_create(c) => clients[c].first = "3D000" /\ clients[c].found = "no"]_vars
    /\ [](\A c \in Clients :
            /\ clients[c].code = "42P04" =>
                 clients[c].pc = "reconnect" \/ clients[c].result = "Ok" \/ clients[c].unrelated
            /\ clients[c].first = "other" =>
                 clients[c].creates = 0 /\ clients[c].pc = "returned" /\ clients[c].result = "Err"
            /\ clients[c].creates <= 1
            /\ clients[c].pc = "returned" /\ name_is_safe(pg_url) /\ ~clients[c].unrelated =>
                 clients[c].result = "Ok" /\ pg_url \in databases)

\* two clients found the database missing and both issued CREATE DATABASE:
\* one created it, the other got 42P04, and both are connected
C25_Witness ==
    \E c1, c2 \in Clients :
        /\ clients[c1].code = "ok" /\ clients[c1].creates = 1
        /\ clients[c2].code = "42P04" /\ clients[c2].creates = 1
        /\ clients[c2].found = "no"
        /\ clients[c1].result = "Ok" /\ clients[c2].result = "Ok"

====
